---- MODULE Spec2Model ----
(***************************************************************************)
(* A model of the story generator (src/story_generator.py): the chunker    *)
(* _split_story_into_chunks, the chunked translation                       *)
(* translate_story_in_chunks, the chaptered generation                     *)
(* generate_story_in_chapters and the command line entry point main with   *)
(* its single-shot / chaptered decision and its MAX_TOKENS fallback; and   *)
(* of the two form shells, the Tkinter window of src/app.py and the        *)
(* Streamlit page of src/streamlit_app.py.                                 *)
(*                                                                         *)
(* A text is a sequence of one-character strings, so that str.strip,       *)
(* str.rfind, slicing and "\n\n".join are computed and not assumed.        *)
(* Python indices are 0-based: s[i] of the source is s[i + 1] here.        *)
(***************************************************************************)
EXTENDS Integers, Sequences, FiniteSets, TLC

VARIABLES
    pc,                \* position of the running function
    text,              \* _split_story_into_chunks / translate_story_in_chunks: the text argument
    max_chars,         \* their max_chars argument
    sanitized,         \* _split_story_into_chunks: text.strip()
    start,             \* _split_story_into_chunks: the scan position
    chunks,            \* the chunks built by the split (and read by the translation)
    cuts,              \* history: the set of <<start, split>> of the iterations of the scan
    translated_chunks, \* translate_story_in_chunks: the translations so far
    idx,               \* translate_story_in_chunks: enumerate index of the call in progress
    target_language,   \* translate_story_in_chunks: its target_language argument
    requests,          \* history: the prompts posted to the remote endpoint, in order
    responses,         \* history: what the endpoint answered, in order
    args,              \* main: the parsed command line
    data,              \* load_config: the JSON document read, or what the user typed
    cfg,               \* main: the StoryConfig
    chunked,           \* main: the chaptered / single-shot decision
    chapters,          \* generate_story_in_chapters: the chapter texts so far
    cumulative_text,   \* generate_story_in_chapters: "\n\n".join(chapters)
    chapter_number,    \* generate_story_in_chapters: the loop variable
    in_fallback,       \* main: inside the except handler's second attempt
    temperature,       \* the temperature argument of the running function
    result,            \* the value returned (chunks, story or translation)
    error,             \* the exception that left the running function, NoError if none
    stdout,            \* main: what was printed on standard output, in order
    stderr,            \* main: what was printed on standard error, in order
    output_file,       \* main: what was written to args.output, in order
    exit_code,         \* main: the process exit status, None while running
    environ,           \* os.getenv("GEMINI_API_KEY")
    long_texts,        \* the long texts the endpoint may write for a chapter in this run
    output_text,       \* app.py: the content of the output area
    generate_btn,      \* app.py: state of the Generate button
    translate_btn,     \* app.py: state of the Translate button
    status_var,        \* app.py: the status line
    messagebox,        \* app.py: the dialogs shown, in order
    threads,           \* app.py: the background threads started, in order
    after_queue,       \* app.py: the callbacks given to root.after, not yet run
    session_state,     \* streamlit_app.py: st.session_state (the latest story)
    page               \* streamlit_app.py: what the last run of the script rendered

vars == <<pc, text, max_chars, sanitized, start, chunks, cuts, translated_chunks, idx,
          target_language,
          requests, responses, args, data, cfg, chunked, chapters, cumulative_text,
          chapter_number, in_fallback, temperature, result, error, stdout, stderr, output_file,
          exit_code, environ, long_texts, output_text, generate_btn, translate_btn, status_var,
          messagebox, threads, after_queue, session_state, page>>

splitVars == <<text, max_chars, sanitized, start, chunks, cuts>>
transVars == <<translated_chunks, idx, target_language>>
netVars   == <<requests, responses>>
genVars   == <<chapters, cumulative_text, chapter_number>>
mainVars  == <<args, data, cfg, chunked, in_fallback>>
ioVars    == <<stdout, stderr, output_file, exit_code>>
tkVars    == <<output_text, generate_btn, translate_btn, status_var, messagebox, threads,
               after_queue>>
stVars    == <<session_state, page>>
envVars   == <<environ, long_texts>>
shellVars == <<envVars, tkVars, stVars>>

None == "None"

\* an optional argument: Some(x) or Nothing
Some(x) == <<x>>
Nothing == << >>

NoError == [type |-> "None", message |-> << >>]

(***************************************************************************)
(* Bounds of the model.                                                    *)
(***************************************************************************)
MaxLen == 5          \* longest text given to the chunker
MaxChars == 3        \* largest max_chars given to the chunker
MaxStoryLen == 4     \* longest text given to translate_story_in_chunks
MaxChapters == 4     \* largest chapter count of a configuration

(***************************************************************************)
(* Python's str and list primitives.                                       *)
(***************************************************************************)
Chars == {"a", "b", " ", "\n"}

isspace(c) == c \in {" ", "\n"}

Min(a, b) == IF a < b THEN a ELSE b
Max(a, b) == IF a > b THEN a ELSE b

SetMax(S) == CHOOSE m \in S : \A n \in S : n <= m
SetMin(S) == CHOOSE m \in S : \A n \in S : m <= n

\* s[i:j] for 0 <= i, j <= len(s)
Slice(s, i, j) == SubSeq(s, i + 1, j)

RECURSIVE FirstText(_, _)
\* the first position from i on that holds no whitespace, len(s) + 1 if none
FirstText(s, i) == IF i > Len(s) \/ ~isspace(s[i]) THEN i ELSE FirstText(s, i + 1)

RECURSIVE LastText(_, _)
\* the last position up to j that holds no whitespace, 0 if none
LastText(s, j) == IF j = 0 \/ ~isspace(s[j]) THEN j ELSE LastText(s, j - 1)

\* s.strip()
strip(s) == SubSeq(s, FirstText(s, 1), LastText(s, Len(s)))

\* s.rfind(sub, lo, hi): the highest index i with lo <= i, i + len(sub) <= hi and
\* s[i:i+len(sub)] == sub, or -1
rfind(s, sub, lo, hi) ==
    LET hits == {i \in lo..(hi - Len(sub)) : SubSeq(s, i + 1, i + Len(sub)) = sub}
    IN  IF hits = {} THEN -1 ELSE SetMax(hits)

RECURSIVE JoinFrom(_, _, _)
JoinFrom(sep, parts, k) ==
    IF k > Len(parts) THEN << >>
    ELSE IF k = Len(parts) THEN parts[k]
    ELSE parts[k] \o sep \o JoinFrom(sep, parts, k + 1)

\* sep.join(parts)
join(sep, parts) == JoinFrom(sep, parts, 1)

BlankLine == <<"\n", "\n">>

\* all texts over Chars of length at most n
TextsUpTo(n) == UNION {[1..k -> Chars] : k \in 0..n}

(***************************************************************************)
(* _split_story_into_chunks: one iteration of the while loop.              *)
(***************************************************************************)
\* SplitPoint with a window one character too wide
SplitPoint_wide(s, st, mc) ==
    LET length == Len(s)
        end == Min(length, st + mc + 1)
    IN  IF end < length
        THEN LET para == rfind(s, BlankLine, st, end)
                 line == IF para = -1 \/ para <= st THEN rfind(s, <<"\n">>, st, end) ELSE para
             IN  IF line = -1 \/ line <= st THEN end ELSE line
        ELSE length

\* SplitPoint that looks for the last newline of any kind
SplitPoint_last_newline(s, st, mc) ==
    LET length == Len(s)
        end == Min(length, st + mc)
    IN  IF end < length
        THEN LET line == rfind(s, <<"\n">>, st, end)
             IN  IF line = -1 \/ line <= st THEN end ELSE line
        ELSE length

\* SplitPoint that leaves the cut at the start when the window holds no newline
SplitPoint_stuck(s, st, mc) ==
    LET length == Len(s)
        end == Min(length, st + mc)
    IN  IF end < length
        THEN LET para == rfind(s, BlankLine, st, end)
                 line == IF para = -1 \/ para <= st THEN rfind(s, <<"\n">>, st, end) ELSE para
             IN  IF line = -1 \/ line <= st THEN st ELSE line
        ELSE length

\* lines 310-318: where the piece starting at st ends
SplitPoint(s, st, mc) ==
    LET length == Len(s)
        end == Min(length, st + mc)
    IN  IF end < length
        THEN LET para == rfind(s, BlankLine, st, end)
                 line == IF para = -1 \/ para <= st THEN rfind(s, <<"\n">>, st, end) ELSE para
             IN  IF line = -1 \/ line <= st THEN end ELSE line
        ELSE length

\* SkipSpace that steps over one character, taking the cut for a separator
SkipSpace_one(s, split) == Min(Len(s), split + 1)

\* lines 324-326: the next start, after the whitespace that follows the cut
SkipSpace(s, split) ==
    SetMin({i \in split..Len(s) : i = Len(s) \/ ~isspace(s[i + 1])})

\* AppendChunk without the strip of line 320
AppendChunk_unstripped(list, s, st, split) ==
    LET chunk == Slice(s, st, split)
    IN  IF chunk # << >> THEN Append(list, chunk) ELSE list

\* lines 320-322: the list after the piece s[st:split] was considered
AppendChunk(list, s, st, split) ==
    LET chunk == strip(Slice(s, st, split))
    IN  IF chunk # << >> THEN Append(list, chunk) ELSE list

RECURSIVE SplitLoop(_, _, _, _)
SplitLoop(s, st, mc, list) ==
    IF st < Len(s)
    THEN LET split == SplitPoint(s, st, mc)
         IN  SplitLoop(s, SkipSpace(s, split), mc, AppendChunk(list, s, st, split))
    ELSE list

\* the whole function, for max_chars >= 1 (with max_chars = 0 the loop never ends)
_split_story_into_chunks(t, mc) ==
    LET s == strip(t)
    IN  IF s = << >> THEN << >> ELSE SplitLoop(s, 0, mc, << >>)

(***************************************************************************)
(* The chunker run step by step.                                           *)
(***************************************************************************)
IdleNet ==
    /\ requests = << >> /\ responses = << >>
    /\ result = << >> /\ error = NoError

IdleTranslate ==
    /\ translated_chunks = << >> /\ idx = 0 /\ target_language = None /\ temperature = None

IdleMain ==
    /\ args = None /\ data = None /\ cfg = None /\ chunked = FALSE
    /\ chapters = << >> /\ cumulative_text = << >> /\ chapter_number = 0
    /\ in_fallback = FALSE
    /\ stdout = << >> /\ stderr = << >> /\ output_file = << >> /\ exit_code = None

\* no window and no page: the functions are called directly
IdleTk ==
    /\ output_text = << >> /\ generate_btn = None /\ translate_btn = None
    /\ status_var = None /\ messagebox = << >> /\ threads = << >> /\ after_queue = << >>

IdleSt == session_state = << >> /\ page = << >>

InitSplit ==
    /\ pc = "split_entry"
    /\ long_texts = {}
    /\ environ = None /\ IdleTk /\ IdleSt
    /\ text \in TextsUpTo(MaxLen)
    /\ max_chars \in 0..MaxChars
    /\ sanitized = << >> /\ start = 0 /\ chunks = << >> /\ cuts = {}
    /\ IdleTranslate /\ IdleNet /\ IdleMain

\* lines 301-307
SplitEnter ==
    /\ pc = "split_entry"
    /\ sanitized' = strip(text)
    /\ IF strip(text) = << >>
       THEN pc' = "split_done" /\ result' = << >>
       ELSE pc' = "split_loop" /\ result' = result
    /\ start' = 0 /\ chunks' = << >>
    /\ UNCHANGED <<text, max_chars, cuts, transVars, temperature, netVars, genVars, mainVars, ioVars, error,
                   shellVars>>

\* lines 309-326: one iteration
SplitIterate ==
    /\ pc = "split_loop"
    /\ start < Len(sanitized)
    /\ LET split == SplitPoint(sanitized, start, max_chars)
       IN  /\ chunks' = AppendChunk(chunks, sanitized, start, split)
           /\ start' = SkipSpace(sanitized, split)
           /\ cuts' = cuts \cup {<<start, split>>}
    /\ UNCHANGED <<pc, text, max_chars, sanitized, transVars, temperature, netVars, genVars, mainVars, ioVars,
                   result, error,
                   shellVars>>

\* lines 309, 328: the loop condition fails and the list is returned
SplitReturn ==
    /\ pc = "split_loop"
    /\ ~(start < Len(sanitized))
    /\ pc' = "split_done"
    /\ result' = chunks
    /\ UNCHANGED <<splitVars, transVars, temperature, netVars, genVars, mainVars, ioVars, error,
                   shellVars>>

NextSplit == SplitEnter \/ SplitIterate \/ SplitReturn

SpecSplit == InitSplit /\ [][NextSplit]_vars

\* texts of lines and paragraphs, long enough for a window to hold a blank line
\* and a later newline
MaxLinesLen == 7
MaxWindow == 5
LineTexts == UNION {[1..k -> {"a", " ", "\n"}] : k \in 0..MaxLinesLen}

InitSplitLines ==
    /\ pc = "split_entry"
    /\ long_texts = {}
    /\ environ = None /\ IdleTk /\ IdleSt
    /\ text \in LineTexts
    /\ max_chars \in 1..MaxWindow
    /\ sanitized = << >> /\ start = 0 /\ chunks = << >> /\ cuts = {}
    /\ IdleTranslate /\ IdleNet /\ IdleMain

SpecSplitLines == InitSplitLines /\ [][NextSplit]_vars

\* the function runs to its return: a call that can take a step takes it
SpecSplitFair == SpecSplit /\ WF_vars(NextSplit)

(***************************************************************************)
(* Exceptions and the remote endpoint.                                     *)
(* An exception is its type and its message, the message a sequence of     *)
(* tokens, so that '"MAX_TOKENS" in str(err)' is a search and not a flag.  *)
(***************************************************************************)
Raise(type, message) == [ok |-> FALSE, exc |-> [type |-> type, message |-> message]]
Return(value) == [ok |-> TRUE, value |-> value]

\* 'token in str(err)'
Contains(exc, token) == \E i \in DOMAIN exc.message : exc.message[i] = token

\* a text whose second line begins with an indent
IndentedText == <<"A", "\n", " ", "B">>

\* the texts the endpoint may generate
ReplyTexts == {<<"A">>, <<" ", "B", "\n">>, IndentedText}

\* what the endpoint may answer to one request: a 2xx response with the text at
\* candidates[0].content.parts[0].text, a 2xx response without that path (the
\* finish reason says why), or a non-2xx status
Responses ==
    [status : {"ok"}, has_text : {TRUE}, text : ReplyTexts, detail : {"STOP"}]
    \cup [status : {"ok"}, has_text : {FALSE}, text : {<< >>},
          detail : {"MAX_TOKENS", "SAFETY"}]
    \cup [status : {"http_error"}, has_text : {FALSE}, text : {<< >>},
          detail : {"Server Error", "MAX_TOKENS"}]

\* GeminiClient.__init__ that tests 'api_key is None' for 'not api_key'
GeminiClient_none_only(api_key) ==
    IF api_key = None
    THEN Raise("ValueError", <<"Set GEMINI_API_KEY in your environment.">>)
    ELSE Return([api_key |-> api_key])

\* lines 240-245: GeminiClient.__init__
GeminiClient(api_key) ==
    IF api_key = None \/ api_key = ""
    THEN Raise("ValueError", <<"Set GEMINI_API_KEY in your environment.">>)
    ELSE Return([api_key |-> api_key])

\* _call_gemini whose response-shape error leaves the payload out of its message
_call_gemini_without_payload(r) ==
    IF r.status # "ok"
    THEN Raise("HTTPError", <<"500", r.detail>>)
    ELSE IF ~r.has_text
         THEN Raise("RuntimeError", <<"Unexpected Gemini response:">>)
         ELSE Return(strip(r.text))

\* lines 263-268: what _call_gemini makes of the endpoint's answer r
_call_gemini(r) ==
    IF r.status # "ok"
    THEN Raise("HTTPError", <<"500", r.detail>>)
    ELSE IF ~r.has_text
         THEN Raise("RuntimeError", <<"Unexpected Gemini response:", r.detail>>)
         ELSE Return(strip(r.text))

\* lines 248-255: the request posted for a prompt
Payload(prompt, temp) == [prompt |-> prompt, temperature |-> temp]

(***************************************************************************)
(* textwrap.dedent, which every prompt builder applies to its template     *)
(* after the values are embedded (lines 150, 196, 234). The lines of the   *)
(* template are indented by TemplateIndent blanks; the lines an embedded   *)
(* value brings after its first are not. dedent empties the lines that     *)
(* hold only blanks and removes from every other line the largest indent   *)
(* common to them all, so what it does to one value depends on the lines   *)
(* of all of them.                                                         *)
(***************************************************************************)
TemplateIndent == 4

RECURSIVE LinesFrom(_, _)
\* s[k..].split("\n")
LinesFrom(s, k) ==
    LET breaks == {i \in k..Len(s) : s[i] = "\n"}
    IN  IF breaks = {} THEN <<SubSeq(s, k, Len(s))>>
        ELSE <<SubSeq(s, k, SetMin(breaks) - 1)>> \o LinesFrom(s, SetMin(breaks) + 1)

\* s.split("\n")
Lines(s) == LinesFrom(s, 1)

\* a line of blanks only (or of nothing)
IsBlank(line) == \A i \in DOMAIN line : line[i] = " "

\* the number of blanks a line begins with
Indent(line) == SetMin({i \in 1..(Len(line) + 1) : i > Len(line) \/ line[i] # " "}) - 1

\* the indents of the lines of an embedded value that begin a line of the
\* template by themselves: all but the first, blank lines left out
InnerIndents(value) ==
    {Indent(Lines(value)[k]) : k \in {j \in 2..Len(Lines(value)) : ~IsBlank(Lines(value)[j])}}

\* the indents of the lines a bullet list brings after its first: from the
\* second on its items begin a line with "-"
BulletIndents(bullets) ==
    UNION {InnerIndents(bullets[k]) : k \in DOMAIN bullets}
    \cup (IF Len(bullets) >= 2 THEN {0} ELSE {})

\* the margin dedent finds for a template that embeds the values and the bullet
\* lists: every line of the template itself, and so the first line of every
\* value and of every list, has TemplateIndent
Margin(values, lists) ==
    SetMin({TemplateIndent}
           \cup UNION {InnerIndents(v) : v \in values}
           \cup UNION {BulletIndents(lists[k]) : k \in DOMAIN lists})

\* what dedent leaves of an embedded value: own_line says that the value has
\* its first line of the template to itself ({sanitized}, {prior_context})
Dedented(value, margin, own_line) ==
    LET lines == Lines(value)
    IN  join(<<"\n">>,
             [k \in 1..Len(lines) |->
                 IF IsBlank(lines[k]) /\ (k > 1 \/ own_line) THEN << >>
                 ELSE IF k = 1 THEN lines[k]
                 ELSE SubSeq(lines[k], margin + 1, Len(lines[k]))])

(***************************************************************************)
(* Translation.                                                            *)
(***************************************************************************)
\* build_translation_prompt with the chunk index and the chunk count exchanged
build_translation_prompt_swapped(story_text, language, chunk_index, chunk_count) ==
    LET clean == strip(story_text)
    IN  IF clean = << >>
        THEN Raise("ValueError", <<"No story text supplied for translation.">>)
        ELSE Return([kind |-> "translation",
                     target_language |-> language,
                     chunk_note |-> IF chunk_index # Nothing /\ chunk_count # Nothing
                                    THEN <<chunk_count[1], chunk_index[1]>>
                                    ELSE << >>,
                     story |-> Dedented(clean, Margin({clean}, << >>), TRUE)])

\* lines 199-234
build_translation_prompt(story_text, language, chunk_index, chunk_count) ==
    LET clean == strip(story_text)
    IN  IF clean = << >>
        THEN Raise("ValueError", <<"No story text supplied for translation.">>)
        ELSE Return([kind |-> "translation",
                     target_language |-> language,
                     chunk_note |-> IF chunk_index # Nothing /\ chunk_count # Nothing
                                    THEN <<chunk_index[1], chunk_count[1]>>
                                    ELSE << >>,
                     story |-> Dedented(clean, Margin({clean}, << >>), TRUE)])

\* line 335: the default temperature, as text
TranslateTemperature == "0.35"

\* the target languages asked for: the default of lines 334 and 404, and another
Languages == {"Marathi", "Hindi"}

InitTranslate ==
    /\ pc = "translate_entry"
    /\ long_texts = {}
    /\ environ = None /\ IdleTk /\ IdleSt
    /\ text \in TextsUpTo(MaxStoryLen)
    /\ max_chars \in 0..MaxChars
    /\ sanitized = << >> /\ start = 0 /\ chunks = << >> /\ cuts = {}
    /\ translated_chunks = << >> /\ idx = 0 /\ temperature = TranslateTemperature
    /\ target_language \in Languages
    /\ IdleNet /\ IdleMain

\* TranslateEnter without the check of lines 339-340
TranslateEnter_unchecked ==
    /\ pc = "translate_entry"
    /\ IF strip(text) # << >> /\ max_chars < 1
       THEN pc' = "split_diverges" /\ chunks' = chunks
       ELSE pc' = "translate_loop" /\ chunks' = _split_story_into_chunks(text, max_chars)
    /\ idx' = 1
    /\ translated_chunks' = << >>
    /\ UNCHANGED <<text, max_chars, sanitized, start, cuts, target_language, temperature, netVars, genVars,
                   mainVars, ioVars, result, error,
                   shellVars>>

\* lines 338-343
TranslateEnter ==
    /\ pc = "translate_entry"
    /\ IF strip(text) # << >> /\ max_chars < 1
       THEN \* the while loop of the split never ends
            /\ pc' = "split_diverges"
            /\ UNCHANGED <<chunks, error, idx>>
       ELSE LET list == _split_story_into_chunks(text, max_chars)
            IN  /\ chunks' = list
                /\ IF list = << >>
                   THEN /\ error' = Raise("ValueError",
                                          <<"No story text supplied for translation.">>).exc
                        /\ pc' = "translate_raised"
                        /\ idx' = idx
                   ELSE /\ error' = error
                        /\ pc' = "translate_loop"
                        /\ idx' = 1
    /\ translated_chunks' = << >>
    /\ UNCHANGED <<text, max_chars, sanitized, start, cuts, target_language, temperature, netVars, genVars,
                   mainVars, ioVars, result,
                   shellVars>>

\* lines 344-351 and 281-262: translate_text builds the prompt and posts it
TranslateCall ==
    /\ pc = "translate_loop"
    /\ idx <= Len(chunks)
    /\ LET built == build_translation_prompt(chunks[idx], target_language,
                                              Some(idx), Some(Len(chunks)))
       IN  IF built.ok
           THEN /\ requests' = Append(requests, Payload(built.value, temperature))
                /\ pc' = "translate_await"
                /\ error' = error
           ELSE /\ requests' = requests
                /\ pc' = "translate_raised"
                /\ error' = built.exc
    /\ UNCHANGED <<splitVars, transVars, temperature, responses, genVars, mainVars, ioVars, result,
                   shellVars>>

\* lines 263-268, 352: the endpoint answers; the translation is appended or the
\* exception leaves translate_story_in_chunks
TranslateResponse ==
    /\ pc = "translate_await"
    /\ \E r \in Responses :
        /\ responses' = Append(responses, r)
        /\ LET got == _call_gemini(r)
           IN  IF got.ok
               THEN /\ translated_chunks' = Append(translated_chunks, got.value)
                    /\ idx' = idx + 1
                    /\ pc' = "translate_loop"
                    /\ error' = error
               ELSE \* the locals die with the frame
                    /\ translated_chunks' = << >>
                    /\ idx' = 0
                    /\ pc' = "translate_raised"
                    /\ error' = got.exc
    /\ UNCHANGED <<splitVars, target_language, temperature, requests, genVars, mainVars, ioVars,
                   result, shellVars>>

\* line 354
TranslateReturn ==
    /\ pc = "translate_loop"
    /\ idx > Len(chunks)
    /\ result' = join(BlankLine, translated_chunks)
    /\ pc' = "translate_done"
    /\ UNCHANGED <<splitVars, transVars, temperature, netVars, genVars, mainVars, ioVars, error,
                   shellVars>>

NextTranslate == TranslateEnter \/ TranslateCall \/ TranslateResponse \/ TranslateReturn

SpecTranslate == InitTranslate /\ [][NextTranslate]_vars

(***************************************************************************)
(* StoryConfig.                                                            *)
(* A JSON value is [t, n, s, l]: its type t ("absent" for a missing key),  *)
(* and the number, string or list it holds.                                *)
(***************************************************************************)
DefaultWordLength == 900
DefaultChapters == 3

JAbsent  == [t |-> "absent", n |-> 0, s |-> << >>, l |-> << >>]
JInt(n)  == [t |-> "int", n |-> n, s |-> << >>, l |-> << >>]
JStr(s)  == [t |-> "str", n |-> 0, s |-> s, l |-> << >>]
JList(l) == [t |-> "list", n |-> 0, s |-> << >>, l |-> l]

RECURSIVE SplitComma(_, _, _)
\* s.split(","): the pieces of s[k..] after the piece begun as cur
SplitComma(s, k, cur) ==
    IF k > Len(s) THEN <<cur>>
    ELSE IF s[k] = "," THEN <<cur>> \o SplitComma(s, k + 1, << >>)
    ELSE SplitComma(s, k + 1, Append(cur, s[k]))

\* [item.strip() for item in items if item.strip()]
StripAll(items) ==
    LET stripped == [k \in 1..Len(items) |-> strip(items[k])]
    IN  SelectSeq(stripped, LAMBDA item : item # << >>)

\* lines 33-38
_list(value) ==
    IF value.t = "list" THEN StripAll(value.l)
    ELSE IF value.t = "str" THEN StripAll(SplitComma(value.s, 1, << >>))
    ELSE << >>

DecimalDigits == <<"0", "1", "2", "3", "4", "5", "6", "7", "8", "9">>

\* lines 42, 86: int(raw) of a text without surrounding whitespace: an optional
\* sign and decimal digits, which may have single underscores between them;
\* anything else is a ValueError
ParseInt(raw) ==
    LET signed == raw # << >> /\ raw[1] \in {"+", "-"}
        body   == IF signed THEN Tail(raw) ELSE raw
        digits == SelectSeq(body, LAMBDA ch : ch # "_")
        RECURSIVE Value(_)
        Value(ds) ==
            IF ds = << >> THEN 0
            ELSE 10 * Value(SubSeq(ds, 1, Len(ds) - 1))
                 + (CHOOSE d \in 0..9 : DecimalDigits[d + 1] = ds[Len(ds)])
        wellformed ==
            /\ digits # << >>
            /\ \A i \in DOMAIN digits : \E d \in DOMAIN DecimalDigits : DecimalDigits[d] = digits[i]
            /\ body[1] # "_" /\ body[Len(body)] # "_"
            /\ \A i \in 1..(Len(body) - 1) : ~(body[i] = "_" /\ body[i + 1] = "_")
    IN  IF wellformed
        THEN [ok |-> TRUE, n |-> IF signed /\ raw[1] = "-" THEN 0 - Value(digits) ELSE Value(digits)]
        ELSE [ok |-> FALSE, n |-> 0]

\* lines 40-45: int(value) of a number is the number and of a string what the
\* string parses to, whitespace around it ignored; a string that is no integer
\* (ValueError), a list and a missing key, which is None (TypeError), give the
\* default, and so does a parsed value that is not positive
_int(value, default) ==
    LET parsed == IF value.t = "int" THEN [ok |-> TRUE, n |-> value.n]
                  ELSE IF value.t = "str" THEN ParseInt(strip(value.s))
                  ELSE [ok |-> FALSE, n |-> 0]
    IN  IF parsed.ok /\ parsed.n > 0 THEN parsed.n ELSE default

RECURSIVE Decimal(_)
\* str(n) of an integer
Decimal(n) ==
    IF n < 0 THEN <<"-">> \o Decimal(0 - n)
    ELSE IF n < 10 THEN <<DecimalDigits[n + 1]>>
    ELSE Decimal(n \div 10) \o <<DecimalDigits[(n % 10) + 1]>>

RECURSIVE Escaped(_, _)
\* the characters of s[k..] as repr writes them: a line break as \n
Escaped(s, k) ==
    IF k > Len(s) THEN << >>
    ELSE (IF s[k] = "\n" THEN <<"\\", "n">> ELSE <<s[k]>>) \o Escaped(s, k + 1)

\* repr(s) of a string without quotes or backslashes
Repr(s) == <<"'">> \o Escaped(s, 1) \o <<"'">>

\* str(items) of a list of strings
ReprList(items) ==
    <<"[">> \o join(<<",", " ">>, [k \in 1..Len(items) |-> Repr(items[k])]) \o <<"]">>

\* str(data.get(key, "")).strip() of lines 48-56: a string is taken as it is, a
\* number or a list as Python prints it, a missing key is ""
_str(value) ==
    strip(IF value.t = "str" THEN value.s
          ELSE IF value.t = "int" THEN Decimal(value.n)
          ELSE IF value.t = "list" THEN ReprList(value.l)
          ELSE << >>)

\* lines 47-57
from_dict(doc) ==
    [story_description      |-> _str(doc.story_description),
     characters             |-> _list(doc.characters),
     genre                  |-> _str(doc.genre),
     writing_style          |-> _str(doc.writing_style),
     literature_inspiration |-> _str(doc.literature_inspiration),
     word_length            |-> _int(doc.word_length, DefaultWordLength),
     chapters               |-> _int(doc.chapters, DefaultChapters),
     plot_twists            |-> _list(doc.plot_twists),
     ending_type            |-> _str(doc.ending_type)]

\* the str-typed fields of the dataclass, in the order of asdict
StringFields == <<"story_description", "genre", "writing_style",
                  "literature_inspiration", "ending_type">>

\* validate that looks at the description only
validate_description_only(c) ==
    IF strip(c.story_description) = << >>
    THEN Raise("ValueError", <<"Missing required fields:", "story_description">>)
    ELSE Return(c)

\* lines 59-66: the str-typed fields that are empty after strip
validate(c) ==
    LET missing == SelectSeq(StringFields, LAMBDA f : strip(c[f]) = << >>)
    IN  IF missing # << >>
        THEN Raise("ValueError", <<"Missing required fields:">> \o missing)
        ELSE Return(c)

\* lines 72-75: ask(prompt_text, default)
ask(typed, default) == IF strip(typed) # << >> THEN strip(typed) ELSE default

\* lines 77-79: ask_list
ask_list(typed) == StripAll(SplitComma(strip(typed), 1, << >>))

RECURSIVE ask_int(_, _)
\* lines 81-92: answers holds what the user types at this question, in order: a
\* blank answer gives the default, a positive integer is returned, and any other
\* answer is asked again
ask_int(answers, default) ==
    LET raw    == strip(Head(answers))
        parsed == ParseInt(raw)
    IN  IF raw = << >> THEN default
        ELSE IF parsed.ok /\ parsed.n > 0 THEN parsed.n
        ELSE ask_int(Tail(answers), default)

GenreDefault == <<"H">>
StyleDefault == <<"L">>
InspirationDefault == <<"P">>
EndingDefault == <<"B">>

\* lines 94-114: the StoryConfig built from what the user typed
TypedConfig(typed) ==
    [story_description      |-> ask(typed.story_description, << >>),
     characters             |-> ask_list(typed.characters),
     genre                  |-> ask(typed.genre, GenreDefault),
     writing_style          |-> ask(typed.writing_style, StyleDefault),
     literature_inspiration |-> ask(typed.literature_inspiration, InspirationDefault),
     word_length            |-> ask_int(typed.word_length, DefaultWordLength),
     chapters               |-> ask_int(typed.chapters, DefaultChapters),
     plot_twists            |-> ask_list(typed.plot_twists),
     ending_type            |-> ask(typed.ending_type, EndingDefault)]

\* lines 72-102: what prompt_user_for_config writes, in order, by the calls named
\* in bys: input() writes the question of every call and print, after each answer
\* that ask_int rejects, the notice of line 91
Transcript(typed, bys) ==
    LET Asked(question) == [by |-> "input", text |-> question]
        RECURSIVE AskInt(_, _)
        AskInt(question, answers) ==
            LET raw    == strip(Head(answers))
                parsed == ParseInt(raw)
            IN  IF raw = << >> \/ (parsed.ok /\ parsed.n > 0)
                THEN <<Asked(question)>>
                ELSE <<Asked(question),
                       [by |-> "print", text |-> "Please enter a positive integer."]>>
                     \o AskInt(question, Tail(answers))
        writes ==
            <<Asked("Briefly describe the core story idea: "),
              Asked("List the main characters (comma separated): "),
              Asked("What genre should the story follow? [Historical fiction]: "),
              Asked("Preferred writing style [Lyrical third-person narration]: "),
              Asked("Literature inspiration [Pu La Deshpande's observational humour]: ")>>
            \o AskInt("Approximate total word length [900]: ", typed.word_length)
            \o AskInt("How many chapters? [3]: ", typed.chapters)
            \o <<Asked("List desired plot twists (comma separated): "),
                  Asked("What kind of ending? [Bittersweet but hopeful]: ")>>
        kept == SelectSeq(writes, LAMBDA w : w.by \in bys)
    IN  [k \in DOMAIN kept |-> kept[k].text]

\* lines 69-116: the configuration is built from the answers and validated
\* (line 115) before it is returned
prompt_user_for_config(typed) == validate(TypedConfig(typed))

\* lines 290-297: load_config, doc being the JSON document of the file (path
\* given) or what the user typed (no path)
load_config(path, doc) ==
    IF path = None
    THEN prompt_user_for_config(doc)
    ELSE validate(from_dict(doc))

(***************************************************************************)
(* Prompts. A prompt is the record of what the template embeds.            *)
(***************************************************************************)
CharacterFallback == <<"- Introduce 1-3 fitting characters but keep them stable once named.">>
TwistFallback == <<"- Subtle reveal tied to family legacy">>

\* the items of "\n".join(f"- {c}" for c in items)
Bullets(items) == [k \in 1..Len(items) |-> <<"-", " ">> \o items[k]]

\* "\n".join(f"- {c}" for c in items) or fallback, as dedent leaves it
BulletLines(items, fallback, margin) ==
    IF items = << >> THEN fallback
    ELSE [k \in 1..Len(items) |-> Dedented(Bullets(items)[k], margin, FALSE)]

\* the str-typed values a template embeds at the end of a line of its own text
InlineValues(c) ==
    {c.story_description, c.genre, c.writing_style, c.literature_inspiration, c.ending_type}

\* lines 119-150
build_prompt(c) ==
    LET margin == Margin(InlineValues(c), <<Bullets(c.characters), Bullets(c.plot_twists)>>)
    IN  [kind                   |-> "single",
         story_description      |-> Dedented(c.story_description, margin, FALSE),
         character_lines        |-> BulletLines(c.characters, CharacterFallback, margin),
         genre                  |-> Dedented(c.genre, margin, FALSE),
         writing_style          |-> Dedented(c.writing_style, margin, FALSE),
         literature_inspiration |-> Dedented(c.literature_inspiration, margin, FALSE),
         word_length            |-> c.word_length,
         chapters               |-> c.chapters,
         twist_lines            |-> BulletLines(c.plot_twists, TwistFallback, margin),
         ending_type            |-> Dedented(c.ending_type, margin, FALSE)]

ContextWindow == 2000

Placeholder ==
    <<"N", "o", " ", "c", "h", "a", "p", "t", "e", "r", "s", " ", "h", "a", "v", "e", " ",
      "b", "e", "e", "n", " ", "w", "r", "i", "t", "t", "e", "n", " ", "y", "e", "t", ".">>

\* s[-n:]
LastChars(s, n) == IF Len(s) <= n THEN s ELSE SubSeq(s, Len(s) - n + 1, Len(s))

\* lines 161-162
PriorContext(prior_text) ==
    LastChars(IF strip(prior_text) # << >> THEN strip(prior_text) ELSE Placeholder, ContextWindow)

\* lines 188-194: the requirements that close the template, the same six for
\* every chapter ({...} are the places the f-string fills from the other fields)
ChapterRequirements ==
    <<"1. Target about {target_words} words (+-15%).",
      "2. Output must start with 'Chapter {chapter_number}: <title>'.",
      "3. Advance the narrative meaningfully with Maharashtrian settings, idioms, and customs.",
      "4. Do not introduce new main characters in the final chapter.",
      "5. Maintain consistent motivations, relationships, and unresolved threads from earlier chapters.",
      "6. Focus only on Chapter {chapter_number}; do not summarise past chapters or foreshadow future ones explicitly.">>

\* lines 153-196
build_chapter_prompt(c, number, prior_text, target_words) ==
    LET prior_context == PriorContext(prior_text)
        margin == Margin(InlineValues(c) \cup {prior_context},
                         <<Bullets(c.characters), Bullets(c.plot_twists)>>)
    IN  [kind                   |-> "chapter",
         chapter_number         |-> number,
         chapters               |-> c.chapters,
         story_description      |-> Dedented(c.story_description, margin, FALSE),
         character_lines        |-> BulletLines(c.characters, CharacterFallback, margin),
         genre                  |-> Dedented(c.genre, margin, FALSE),
         writing_style          |-> Dedented(c.writing_style, margin, FALSE),
         literature_inspiration |-> Dedented(c.literature_inspiration, margin, FALSE),
         twist_lines            |-> BulletLines(c.plot_twists, TwistFallback, margin),
         ending_type            |-> Dedented(c.ending_type, margin, FALSE),
         prior_context          |-> Dedented(prior_context, margin, TRUE),
         target_words           |-> target_words,
         requirements           |-> ChapterRequirements]

ChunkWords == 1400
ChunkChapters == 4

\* should_chunk_story with > for >= on the word length
should_chunk_story_strict(c) == c.word_length > ChunkWords \/ c.chapters >= ChunkChapters

\* lines 387-388
should_chunk_story(c) == c.word_length >= ChunkWords \/ c.chapters >= ChunkChapters

MinTargetWords == 200

\* line 364
TargetWords(c) == Max(MinTargetWords, c.word_length \div Max(1, c.chapters))

(***************************************************************************)
(* The inputs of a command line run.                                       *)
(***************************************************************************)
DefaultChunkChars == 1800
MinChunkChars == 600

\* line 395: the default temperature, as text
GenerateTemperature == "0.75"

ApiKeys == {None, "", "key"}

\* the command lines: a translation (--translate-file) or a generation
Invocations ==
    [api_key : ApiKeys, translate_file : {"story.txt"}, translate_language : Languages,
     translate_chunk_chars : {1, DefaultChunkChars}, output : {None, "out.txt"},
     config : {None}, dry_run : {FALSE}, chapter_mode : {"auto"},
     temperature : {GenerateTemperature}]
    \cup
    [api_key : ApiKeys, translate_file : {None}, translate_language : {"Marathi"},
     translate_chunk_chars : {DefaultChunkChars}, output : {None, "out.txt"},
     config : {None, "config.json"}, dry_run : BOOLEAN,
     chapter_mode : {"auto", "single", "chunked"},
     temperature : {GenerateTemperature}]

X == <<"x">>

WordLengthValues ==
    {JAbsent, JStr(X), JInt(0), JInt(100), JInt(DefaultWordLength),
     JInt(ChunkWords - 1), JStr(<<" ">> \o Decimal(ChunkWords))}

ChapterValues ==
    {JAbsent, JStr(X), JStr(<<"0">>), JStr(<<"+", "1">>)} \cup {JInt(n) : n \in 2..MaxChapters}

GoodDocument ==
    [story_description |-> JStr(X), characters |-> JList(<<X>>), genre |-> JStr(X),
     writing_style |-> JStr(X), literature_inspiration |-> JStr(<<" ", "x", " ">>),
     word_length |-> JAbsent, chapters |-> JAbsent, plot_twists |-> JList(<<X>>),
     ending_type |-> JStr(X)]

\* the JSON documents: every length and chapter count with the other keys good,
\* and every key in turn absent, blank or odd (a number or a list where a string
\* is meant) with the numbers left out
ConfigDocuments ==
    {[GoodDocument EXCEPT !.word_length = w, !.chapters = c] :
        w \in WordLengthValues, c \in ChapterValues}
    \cup {[GoodDocument EXCEPT ![f] = v] :
            f \in {StringFields[k] : k \in DOMAIN StringFields},
            v \in {JAbsent, JStr(<<" ">>), JInt(0), JList(<< >>), JList(<<X>>)}}
    \cup {[GoodDocument EXCEPT !.characters = v] :
            v \in {JAbsent, JList(<< >>), JList(<<<<" ">>, X>>), JStr(<<"x", ",", " ", "x">>)}}
    \cup {[GoodDocument EXCEPT !.plot_twists = v] : v \in {JAbsent, JStr(<<",">>)}}

\* what the user may type at the interactive prompts; the two numbers are asked
\* until an answer is blank or a positive integer, so each is a sequence of
\* answers that ends with the first such answer
TypedAnswers ==
    [story_description : {<< >>, X}, characters : {<< >>, <<"x", ",", "x">>},
     genre : {<< >>, X}, writing_style : {<< >>}, literature_inspiration : {<< >>},
     word_length : {<<<< >>>>, <<Decimal(ChunkWords)>>, <<X, <<"0">>, Decimal(ChunkWords)>>},
     chapters : {<<<< >>>>, <<Decimal(MaxChapters)>>, <<<<"-", "1">>, X, << >>>>},
     plot_twists : {<< >>}, ending_type : {<< >>}]

\* what reading --translate-file may give: an OSError or the text of the file
SourceFiles ==
    {[readable |-> FALSE, text |-> << >>]}
    \cup {[readable |-> TRUE, text |-> t] : t \in TextsUpTo(MaxStoryLen)}

Message(prefix, exc) == [text |-> prefix, exc |-> exc]

(***************************************************************************)
(* generate_story_in_chapters and generate_story_single_shot.              *)
(***************************************************************************)
\* a chapter of about the length a chapter prompt asks for (MinTargetWords words
\* or more): two of them are longer than the context window
LongChapterLen == 1100
LongChapter == [k \in 1..LongChapterLen |-> IF k = 1 THEN "b" ELSE "a"]

\* what the endpoint may answer to a chapter prompt
ChapterResponses ==
    Responses
    \cup [status : {"ok"}, has_text : {TRUE}, text : long_texts, detail : {"STOP"}]

\* lines 362-364
GenerateEnter ==
    /\ pc = "chapters_entry"
    /\ chapters' = << >>
    /\ cumulative_text' = << >>
    /\ chapter_number' = 1
    /\ pc' = "chapter_loop"
    /\ UNCHANGED <<splitVars, transVars, temperature, netVars, mainVars, ioVars, result, error,
                   shellVars>>

\* lines 365-372: the prompt of the next chapter is built and posted
ChapterCall ==
    /\ pc = "chapter_loop"
    /\ chapter_number <= cfg.chapters
    /\ requests' = Append(requests,
                          Payload(build_chapter_prompt(cfg, chapter_number, cumulative_text,
                                                       TargetWords(cfg)),
                                  temperature))
    /\ pc' = "chapter_await"
    /\ UNCHANGED <<splitVars, transVars, temperature, responses, genVars, mainVars, ioVars,
                   result, error,
                   shellVars>>

\* ChapterResponse without the update of cumulative_text of line 374
ChapterResponse_stale ==
    /\ pc = "chapter_await"
    /\ \E r \in ChapterResponses :
        /\ responses' = Append(responses, r)
        /\ LET got == _call_gemini(r)
           IN  IF got.ok
               THEN /\ chapters' = Append(chapters, strip(got.value))
                    /\ cumulative_text' = cumulative_text
                    /\ chapter_number' = chapter_number + 1
                    /\ pc' = "chapter_loop"
                    /\ error' = error
               ELSE /\ chapters' = << >>
                    /\ cumulative_text' = << >>
                    /\ chapter_number' = 0
                    /\ pc' = "generate_raised"
                    /\ error' = got.exc
    /\ UNCHANGED <<splitVars, transVars, temperature, requests, mainVars, ioVars, result,
                   shellVars>>

\* lines 263-268, 372-374: the endpoint answers; the chapter is appended or the
\* exception leaves generate_story_in_chapters
ChapterResponse ==
    /\ pc = "chapter_await"
    /\ \E r \in ChapterResponses :
        /\ responses' = Append(responses, r)
        /\ LET got == _call_gemini(r)
           IN  IF got.ok
               THEN /\ chapters' = Append(chapters, strip(got.value))
                    /\ cumulative_text' = join(BlankLine, Append(chapters, strip(got.value)))
                    /\ chapter_number' = chapter_number + 1
                    /\ pc' = "chapter_loop"
                    /\ error' = error
               ELSE \* the locals die with the frame
                    /\ chapters' = << >>
                    /\ cumulative_text' = << >>
                    /\ chapter_number' = 0
                    /\ pc' = "generate_raised"
                    /\ error' = got.exc
    /\ UNCHANGED <<splitVars, transVars, temperature, requests, mainVars, ioVars, result,
                   shellVars>>

\* line 375
ChapterReturn ==
    /\ pc = "chapter_loop"
    /\ chapter_number > cfg.chapters
    /\ result' = join(BlankLine, chapters)
    /\ pc' = "main_output"
    /\ UNCHANGED <<splitVars, transVars, temperature, netVars, genVars, mainVars, ioVars, error,
                   shellVars>>

\* the configurations given to generate_story_in_chapters when it is called by
\* itself: every chapter count, the default word length and a long one
ChapterConfigs ==
    {from_dict([GoodDocument EXCEPT !.word_length = w, !.chapters = JInt(n)]) :
        w \in {JAbsent, JInt(ChunkWords)}, n \in 1..MaxChapters}

\* generate_story_in_chapters(client, cfg, temperature) called by itself, the
\* endpoint writing chapters of full length too
InitChapters ==
    /\ pc = "chapters_entry"
    /\ cfg \in ChapterConfigs
    /\ temperature = GenerateTemperature
    /\ long_texts = {LongChapter}
    /\ environ = "key"
    /\ args = None /\ data = None /\ chunked = FALSE /\ in_fallback = FALSE
    /\ chapters = << >> /\ cumulative_text = << >> /\ chapter_number = 0
    /\ text = << >> /\ max_chars = 0
    /\ sanitized = << >> /\ start = 0 /\ chunks = << >> /\ cuts = {}
    /\ translated_chunks = << >> /\ idx = 0 /\ target_language = None
    /\ IdleNet /\ IdleTk /\ IdleSt
    /\ stdout = << >> /\ stderr = << >> /\ output_file = << >> /\ exit_code = None

NextChapters == GenerateEnter \/ ChapterCall \/ ChapterResponse \/ ChapterReturn

SpecChapters == InitChapters /\ [][NextChapters]_vars

\* lines 383-384: the single prompt is posted
SingleCall ==
    /\ pc = "single_entry"
    /\ requests' = Append(requests, Payload(build_prompt(cfg), temperature))
    /\ pc' = "single_await"
    /\ UNCHANGED <<splitVars, transVars, temperature, responses, genVars, mainVars, ioVars,
                   result, error,
                   shellVars>>

\* lines 263-268, 384: the endpoint answers the single call
SingleResponse ==
    /\ pc = "single_await"
    /\ \E r \in Responses :
        /\ responses' = Append(responses, r)
        /\ LET got == _call_gemini(r)
           IN  IF got.ok
               THEN result' = got.value /\ pc' = "main_output" /\ error' = error
               ELSE result' = result /\ pc' = "generate_raised" /\ error' = got.exc
    /\ UNCHANGED <<splitVars, transVars, temperature, requests, genVars, mainVars, ioVars,
                   shellVars>>

(***************************************************************************)
(* main.                                                                   *)
(***************************************************************************)
InitMain ==
    /\ pc = "main_entry"
    /\ args \in Invocations
    /\ environ = args.api_key /\ long_texts = {} /\ IdleTk /\ IdleSt
    /\ data = None /\ cfg = None /\ chunked = FALSE /\ in_fallback = FALSE
    /\ text = << >> /\ max_chars = 0
    /\ sanitized = << >> /\ start = 0 /\ chunks = << >> /\ cuts = {}
    /\ IdleTranslate /\ IdleNet
    /\ chapters = << >> /\ cumulative_text = << >> /\ chapter_number = 0
    /\ stdout = << >> /\ stderr = << >> /\ output_file = << >> /\ exit_code = None

\* sys.exit(1) after print(message, file=sys.stderr)
Fail(message) ==
    /\ stderr' = Append(stderr, message)
    /\ exit_code' = "1"
    /\ pc' = "exited"
    /\ UNCHANGED <<stdout, output_file>>

\* lines 425-432: the client is made, or the run ends without a credential
MainStart ==
    /\ pc = "main_entry"
    /\ LET made == GeminiClient(args.api_key)
       IN  IF ~made.ok
           THEN Fail(Message("", made.exc)) /\ temperature' = temperature
           ELSE /\ pc' = IF args.translate_file # None
                         THEN "main_read_source" ELSE "main_load_config"
                /\ temperature' = args.temperature
                /\ UNCHANGED ioVars
    /\ UNCHANGED <<splitVars, transVars, netVars, genVars, mainVars, result, error,
                   shellVars>>

\* lines 433-451: the source file is read and translate_story_in_chunks is called
MainReadSource ==
    /\ pc = "main_read_source"
    /\ \E file \in SourceFiles :
        IF ~file.readable
        THEN /\ Fail(Message("Error loading translation source:",
                             [type |-> "OSError", message |-> << >>]))
             /\ UNCHANGED <<text, max_chars, target_language>>
        ELSE IF strip(file.text) = << >>
        THEN /\ Fail(Message("Translation source file is empty.", NoError))
             /\ UNCHANGED <<text, max_chars, target_language>>
        ELSE /\ text' = file.text
             /\ target_language' = args.translate_language
             /\ max_chars' = Max(MinChunkChars, args.translate_chunk_chars)
             /\ pc' = "translate_entry"
             /\ UNCHANGED ioVars
    /\ UNCHANGED <<sanitized, start, chunks, cuts, translated_chunks, idx, temperature, netVars,
                   genVars, mainVars, result, error,
                   shellVars>>

\* lines 452-454
MainTranslateExcept ==
    /\ pc = "translate_raised"
    /\ Fail(Message("Failed to translate story:", error))
    /\ UNCHANGED <<splitVars, transVars, temperature, netVars, genVars, mainVars, result, error,
                   shellVars>>

\* lines 456-460
MainTranslateOutput ==
    /\ pc = "translate_done"
    /\ output_file' = IF args.output # None THEN Append(output_file, result) ELSE output_file
    /\ stdout' = Append(stdout, result)
    /\ exit_code' = "0"
    /\ pc' = "exited"
    /\ UNCHANGED <<splitVars, transVars, temperature, netVars, genVars, mainVars, result, error,
                   stderr,
                   shellVars>>

\* lines 462-472: the configuration is loaded and validated; --dry-run prints the
\* prompt and returns. Without --config the questions of prompt_user_for_config
\* are written first: input() writes them to standard error when standard input
\* and output are a terminal (tty), and to standard output otherwise; the notice
\* that follows a rejected number is printed on standard output
MainLoadConfig ==
    /\ pc = "main_load_config"
    /\ \/ /\ args.config # None
          /\ Fail(Message("Error loading config:", [type |-> "OSError", message |-> << >>]))
          /\ UNCHANGED <<data, cfg>>
       \/ \E doc \in (IF args.config = None THEN TypedAnswers ELSE ConfigDocuments) :
          \E tty \in BOOLEAN :
            LET loaded == load_config(args.config, doc)
                asked_out == IF args.config # None THEN stdout
                             ELSE stdout \o Transcript(doc, IF tty THEN {"print"}
                                                                   ELSE {"input", "print"})
                asked_err == IF args.config = None /\ tty
                             THEN stderr \o Transcript(doc, {"input"}) ELSE stderr
            IN  /\ data' = doc
                /\ IF ~loaded.ok
                   THEN /\ stdout' = asked_out
                        /\ stderr' = Append(asked_err,
                                            Message("Error loading config:", loaded.exc))
                        /\ exit_code' = "1"
                        /\ pc' = "exited"
                        /\ UNCHANGED <<output_file, cfg>>
                   ELSE /\ cfg' = loaded.value
                        /\ stderr' = asked_err
                        /\ IF args.dry_run
                           THEN /\ stdout' = Append(asked_out, build_prompt(loaded.value))
                                /\ exit_code' = "0"
                                /\ pc' = "exited"
                                /\ UNCHANGED output_file
                           ELSE /\ stdout' = asked_out
                                /\ pc' = "main_select_mode"
                                /\ UNCHANGED <<output_file, exit_code>>
    /\ UNCHANGED <<splitVars, transVars, temperature, netVars, genVars, args, chunked,
                   in_fallback, result, error,
                   shellVars>>

\* lines 474-486: the mode is chosen and the chosen generation is entered
MainSelectMode ==
    /\ pc = "main_select_mode"
    /\ LET mode == IF args.chapter_mode = "chunked" THEN TRUE
                   ELSE IF args.chapter_mode = "single" THEN FALSE
                   ELSE should_chunk_story(cfg)
       IN  /\ chunked' = mode
           /\ pc' = IF mode THEN "chapters_entry" ELSE "single_entry"
    /\ UNCHANGED <<splitVars, transVars, temperature, netVars, genVars, args, data, cfg,
                   in_fallback, ioVars, result, error,
                   shellVars>>

\* MainExcept without 'not chunked' in the test of line 488
MainExcept_ignores_mode ==
    /\ pc = "generate_raised"
    /\ ~in_fallback
    /\ IF Contains(error, "MAX_TOKENS")
       THEN /\ in_fallback' = TRUE
            /\ pc' = "chapters_entry"
            /\ UNCHANGED ioVars
       ELSE /\ Fail(Message("Failed to generate story:", error))
            /\ in_fallback' = in_fallback
    /\ UNCHANGED <<splitVars, transVars, temperature, netVars, genVars, args, data, cfg,
                   chunked, result, error,
                   shellVars>>

\* MainExcept without the MAX_TOKENS test of line 488
MainExcept_any_error ==
    /\ pc = "generate_raised"
    /\ ~in_fallback
    /\ IF ~chunked
       THEN /\ in_fallback' = TRUE
            /\ pc' = "chapters_entry"
            /\ UNCHANGED ioVars
       ELSE /\ Fail(Message("Failed to generate story:", error))
            /\ in_fallback' = in_fallback
    /\ UNCHANGED <<splitVars, transVars, temperature, netVars, genVars, args, data, cfg,
                   chunked, result, error,
                   shellVars>>

\* lines 487-496: the first attempt raised; the single shot cut short by
\* MAX_TOKENS is tried again in chapters, anything else ends the run
MainExcept ==
    /\ pc = "generate_raised"
    /\ ~in_fallback
    /\ IF ~chunked /\ Contains(error, "MAX_TOKENS")
       THEN /\ in_fallback' = TRUE
            /\ pc' = "chapters_entry"
            /\ UNCHANGED ioVars
       ELSE /\ Fail(Message("Failed to generate story:", error))
            /\ in_fallback' = in_fallback
    /\ UNCHANGED <<splitVars, transVars, temperature, netVars, genVars, args, data, cfg,
                   chunked, result, error,
                   shellVars>>

\* lines 491-493: the chaptered second attempt raised too
MainExceptFallback ==
    /\ pc = "generate_raised"
    /\ in_fallback
    /\ Fail(Message("Failed to generate story even after chunking:", error))
    /\ UNCHANGED <<splitVars, transVars, temperature, netVars, genVars, mainVars, result, error,
                   shellVars>>

\* lines 498-501
MainOutput ==
    /\ pc = "main_output"
    /\ output_file' = IF args.output # None THEN Append(output_file, result) ELSE output_file
    /\ stdout' = Append(stdout, result)
    /\ exit_code' = "0"
    /\ pc' = "exited"
    /\ UNCHANGED <<splitVars, transVars, temperature, netVars, genVars, mainVars, result, error,
                   stderr,
                   shellVars>>

Next ==
    \/ MainStart \/ MainReadSource \/ MainTranslateExcept \/ MainTranslateOutput
    \/ MainLoadConfig \/ MainSelectMode \/ MainExcept \/ MainExceptFallback \/ MainOutput
    \/ TranslateEnter \/ TranslateCall \/ TranslateResponse \/ TranslateReturn
    \/ GenerateEnter \/ ChapterCall \/ ChapterResponse \/ ChapterReturn
    \/ SingleCall \/ SingleResponse

Init == InitMain

Spec == Init /\ [][Next]_vars

(***************************************************************************)
(* The desktop shell, src/app.py. The Tk main loop runs one handler at a   *)
(* time (a button command or a callback given to root.after); each click   *)
(* that passes its checks starts a daemon thread, and the threads run      *)
(* beside the main loop.                                                   *)
(***************************************************************************)
MaxRuns == 3         \* clicks of one session of a form shell

\* what the user may have put in the form when Generate is clicked: the
\* comboboxes are read-only and start on an option, the word length and the
\* chapter count are among those offered (app.py lines 42-49)
\* what the endpoint answers in a session of a form shell: a text, or a 2xx
\* response cut short by MAX_TOKENS
ShellResponses == {r \in Responses : r.status = "ok" /\ r.detail \in {"STOP", "MAX_TOKENS"}}

DesktopForms ==
    [description : {<< >>, X}, characters : {<< >>, X},
     word_length : {900, 1500}, chapters : {3}, twists : {<< >>}]

\* app.py lines 229-254
_gather_config(form) ==
    LET description == strip(form.description)
        characters == StripAll(SplitComma(form.characters, 1, << >>))
    IN  IF description = << >>
        THEN Raise("ValueError", <<"Please describe the story idea.">>)
        ELSE IF characters = << >>
        THEN Raise("ValueError", <<"Please add at least one character.">>)
        ELSE validate([story_description      |-> description,
                       characters             |-> characters,
                       genre                  |-> GenreDefault,
                       writing_style          |-> StyleDefault,
                       literature_inspiration |-> InspirationDefault,
                       word_length            |-> form.word_length,
                       chapters               |-> form.chapters,
                       plot_twists            |-> form.twists,
                       ending_type            |-> EndingDefault])

\* a dialog of tkinter.messagebox
Dialog(kind, title, exc) == [kind |-> kind, title |-> title, exc |-> exc]

\* a thread started by threading.Thread(target=..., args=(arg,))
Thread(target, arg) == [target |-> target, arg |-> arg, pc |-> "started", request |-> 0]

\* a call given to root.after(0, handler, ...)
Callback(handler, exc, status_message, story) ==
    [handler |-> handler, exc |-> exc, status_message |-> status_message, story |-> story]

\* the clicks so far: those that started a thread and those refused with a dialog
Clicks ==
    Len(threads)
    + Cardinality({k \in DOMAIN messagebox : messagebox[k].title \in {"Invalid input", "No story"}})

InitDesktop ==
    /\ pc = "mainloop"
    /\ long_texts = {}
    /\ environ \in ApiKeys
    /\ output_text = << >>
    /\ generate_btn = "normal" /\ translate_btn = "disabled"
    /\ status_var = "Waiting for input"
    /\ messagebox = << >> /\ threads = << >> /\ after_queue = << >>
    /\ IdleSt
    /\ text = << >> /\ max_chars = 0
    /\ sanitized = << >> /\ start = 0 /\ chunks = << >> /\ cuts = {}
    /\ IdleTranslate /\ IdleNet /\ IdleMain

\* app.py lines 207-216: the Generate button (a disabled button runs no command)
on_generate ==
    /\ pc = "mainloop"
    /\ generate_btn = "normal"
    /\ Clicks < MaxRuns
    /\ \E form \in DesktopForms :
        LET config == _gather_config(form)
        IN  IF ~config.ok
            THEN /\ messagebox' = Append(messagebox,
                                         Dialog("showerror", "Invalid input", config.exc))
                 /\ UNCHANGED <<generate_btn, status_var, threads>>
            ELSE /\ generate_btn' = "disabled"
                 /\ status_var' = "Sending prompt to Gemini"
                 /\ threads' = Append(threads, Thread("_generate_story_async", config.value))
                 /\ UNCHANGED messagebox
    /\ UNCHANGED <<pc, splitVars, transVars, temperature, netVars, genVars, mainVars, ioVars,
                   result, error, envVars, output_text, translate_btn, after_queue, stVars>>

\* app.py lines 218-227: the Translate button
on_translate ==
    /\ pc = "mainloop"
    /\ translate_btn = "normal"
    /\ Clicks < MaxRuns
    /\ LET story_text == strip(output_text)
       IN  IF story_text = << >>
           THEN /\ messagebox' = Append(messagebox, Dialog("showinfo", "No story", NoError))
                /\ UNCHANGED <<generate_btn, translate_btn, status_var, threads>>
           ELSE /\ generate_btn' = "disabled"
                /\ translate_btn' = "disabled"
                /\ status_var' = "Translating story to Marathi"
                /\ threads' = Append(threads, Thread("_translate_story_async", story_text))
                /\ UNCHANGED messagebox
    /\ UNCHANGED <<pc, splitVars, transVars, temperature, netVars, genVars, mainVars, ioVars,
                   result, error, envVars, output_text, after_queue, stVars>>

\* the output area is an editable tk.Text: the user may clear it
OutputCleared ==
    /\ pc = "mainloop"
    /\ output_text # << >>
    /\ output_text' = << >>
    /\ UNCHANGED <<pc, splitVars, transVars, temperature, netVars, genVars, mainVars, ioVars,
                   result, error, envVars, generate_btn, translate_btn, status_var, messagebox,
                   threads, after_queue, stVars>>

UnchangedByThread ==
    UNCHANGED <<pc, splitVars, transVars, temperature, genVars, mainVars, ioVars, result, error,
                envVars, output_text, generate_btn, translate_btn, status_var, messagebox,
                stVars>>

\* app.py lines 257-261: the thread builds the single prompt, makes the client and
\* posts the prompt; an exception is handed to the main loop (lines 262-264)
GenerateStoryAsyncCall ==
    /\ pc = "mainloop"
    /\ \E i \in DOMAIN threads :
        /\ threads[i].target = "_generate_story_async"
        /\ threads[i].pc = "started"
        /\ LET prompt == build_prompt(threads[i].arg)
               client == GeminiClient(environ)
           IN  IF ~client.ok
               THEN /\ after_queue' = Append(after_queue,
                            Callback("_handle_error", client.exc, "Generation failed.", << >>))
                    /\ threads' = [threads EXCEPT ![i].pc = "finished"]
                    /\ requests' = requests
               ELSE /\ requests' = Append(requests, Payload(prompt, GenerateTemperature))
                    /\ threads' = [threads EXCEPT ![i].pc = "awaiting",
                                                  ![i].request = Len(requests) + 1]
                    /\ after_queue' = after_queue
    /\ responses' = responses
    /\ UnchangedByThread

\* app.py lines 261-265: the endpoint answers the thread's request
GenerateStoryAsyncResponse ==
    /\ pc = "mainloop"
    /\ \E i \in DOMAIN threads : \E r \in ShellResponses :
        /\ threads[i].target = "_generate_story_async"
        /\ threads[i].pc = "awaiting"
        /\ responses' = Append(responses, r)
        /\ threads' = [threads EXCEPT ![i].pc = "finished"]
        /\ LET story == _call_gemini(r)
           IN  after_queue' = Append(after_queue,
                   IF story.ok
                   THEN Callback("_handle_success", NoError, "", story.value)
                   ELSE Callback("_handle_error", story.exc, "Generation failed.", << >>))
    /\ requests' = requests
    /\ UnchangedByThread

\* app.py lines 268-271 and story_generator.py lines 281-287: the thread makes
\* the client and translate_text posts one prompt for the whole text
TranslateStoryAsyncCall ==
    /\ pc = "mainloop"
    /\ \E i \in DOMAIN threads :
        /\ threads[i].target = "_translate_story_async"
        /\ threads[i].pc = "started"
        /\ LET client == GeminiClient(environ)
               built == build_translation_prompt(threads[i].arg, "Marathi", Nothing, Nothing)
               raised == IF ~client.ok THEN client.exc ELSE built.exc
           IN  IF ~client.ok \/ ~built.ok
               THEN /\ after_queue' = Append(after_queue,
                            Callback("_handle_error", raised, "Translation failed.", << >>))
                    /\ threads' = [threads EXCEPT ![i].pc = "finished"]
                    /\ requests' = requests
               ELSE /\ requests' = Append(requests, Payload(built.value, TranslateTemperature))
                    /\ threads' = [threads EXCEPT ![i].pc = "awaiting",
                                                  ![i].request = Len(requests) + 1]
                    /\ after_queue' = after_queue
    /\ responses' = responses
    /\ UnchangedByThread

\* app.py lines 271-275
TranslateStoryAsyncResponse ==
    /\ pc = "mainloop"
    /\ \E i \in DOMAIN threads : \E r \in ShellResponses :
        /\ threads[i].target = "_translate_story_async"
        /\ threads[i].pc = "awaiting"
        /\ responses' = Append(responses, r)
        /\ threads' = [threads EXCEPT ![i].pc = "finished"]
        /\ LET translation == _call_gemini(r)
           IN  after_queue' = Append(after_queue,
                   IF translation.ok
                   THEN Callback("_handle_translation_success", NoError, "", translation.value)
                   ELSE Callback("_handle_error", translation.exc, "Translation failed.", << >>))
    /\ requests' = requests
    /\ UnchangedByThread

UnchangedByHandler ==
    UNCHANGED <<pc, splitVars, transVars, temperature, netVars, genVars, mainVars, ioVars,
                result, error, envVars, threads, stVars>>

\* _handle_error that empties the output area as the success handlers do
_handle_error_clears ==
    /\ pc = "mainloop"
    /\ after_queue # << >>
    /\ Head(after_queue).handler = "_handle_error"
    /\ after_queue' = Tail(after_queue)
    /\ generate_btn' = "normal"
    /\ translate_btn' = "disabled"
    /\ status_var' = Head(after_queue).status_message
    /\ messagebox' = Append(messagebox,
                            Dialog("showerror", "Gemini error", Head(after_queue).exc))
    /\ output_text' = << >>
    /\ UnchangedByHandler

\* app.py lines 277-284, run by the main loop for the oldest callback
_handle_error ==
    /\ pc = "mainloop"
    /\ after_queue # << >>
    /\ Head(after_queue).handler = "_handle_error"
    /\ after_queue' = Tail(after_queue)
    /\ generate_btn' = "normal"
    /\ translate_btn' = IF strip(output_text) # << >> THEN "normal" ELSE "disabled"
    /\ status_var' = Head(after_queue).status_message
    /\ messagebox' = Append(messagebox,
                            Dialog("showerror", "Gemini error", Head(after_queue).exc))
    /\ output_text' = output_text
    /\ UnchangedByHandler

\* app.py lines 286-291
_handle_success ==
    /\ pc = "mainloop"
    /\ after_queue # << >>
    /\ Head(after_queue).handler = "_handle_success"
    /\ after_queue' = Tail(after_queue)
    /\ generate_btn' = "normal"
    /\ translate_btn' = "normal"
    /\ status_var' = "Story ready!"
    /\ output_text' = Head(after_queue).story
    /\ messagebox' = messagebox
    /\ UnchangedByHandler

\* app.py lines 293-298
_handle_translation_success ==
    /\ pc = "mainloop"
    /\ after_queue # << >>
    /\ Head(after_queue).handler = "_handle_translation_success"
    /\ after_queue' = Tail(after_queue)
    /\ generate_btn' = "normal"
    /\ translate_btn' = "normal"
    /\ status_var' = "Marathi translation ready!"
    /\ output_text' = Head(after_queue).story
    /\ messagebox' = messagebox
    /\ UnchangedByHandler

NextDesktop ==
    \/ on_generate \/ on_translate \/ OutputCleared
    \/ GenerateStoryAsyncCall \/ GenerateStoryAsyncResponse
    \/ TranslateStoryAsyncCall \/ TranslateStoryAsyncResponse
    \/ _handle_error \/ _handle_success \/ _handle_translation_success

SpecDesktop == InitDesktop /\ [][NextDesktop]_vars

(***************************************************************************)
(* The web shell, src/streamlit_app.py. Streamlit runs the script from the *)
(* top on every interaction; what survives a run is st.session_state.      *)
(***************************************************************************)
\* the options of the web form carry a Marathi gloss after the English text
Glossed(option) == option \o <<"(", "m", "r", ")">>

\* the form when 'Generate story' is submitted, the word length and the chapter
\* count among those offered (streamlit_app.py lines 41-48)
WebForms ==
    [description : {<< >>, X}, characters : {<< >>, X},
     word_length : {1000, 1500}, chapters : {3}, twists : {<< >>}, custom_twists : {<< >>}]

\* the text in 'Story to translate' (pre-filled with the latest story, editable)
\* and the language chosen when 'Translate story' is clicked
WebSources == {<< >>, <<" ">>, X}

\* streamlit_app.py lines 84-90
_get_characters(raw_value) == StripAll(SplitComma(raw_value, 1, << >>))
_get_twists(selected, custom) == selected \o StripAll(SplitComma(custom, 1, << >>))

\* streamlit_app.py lines 93-98: st.error and st.stop without a key
_require_api_key ==
    IF environ = None \/ environ = ""
    THEN Raise("StopException",
               <<"Set GEMINI_API_KEY in your environment or .env file before running the app.">>)
    ELSE Return(environ)

\* streamlit_app.py lines 106-123
_build_story_config(form_values) ==
    LET characters == _get_characters(form_values.characters)
    IN  IF characters = << >>
        THEN Raise("ValueError", <<"Please provide at least one character.">>)
        ELSE validate([story_description      |-> strip(form_values.description),
                       characters             |-> characters,
                       genre                  |-> Glossed(GenreDefault),
                       writing_style          |-> Glossed(StyleDefault),
                       literature_inspiration |-> Glossed(InspirationDefault),
                       word_length            |-> form_values.word_length,
                       chapters               |-> form_values.chapters,
                       plot_twists            |-> _get_twists(form_values.twists,
                                                              form_values.custom_twists),
                       ending_type            |-> Glossed(EndingDefault)])

\* an element rendered on the page
Element(kind, label, value, exc) == [kind |-> kind, label |-> label, value |-> value, exc |-> exc]

StError(label, exc) == Element("error", label, << >>, exc)

\* streamlit_app.py lines 130-131
_get_latest_story == session_state

InitWeb ==
    /\ pc = "script_idle"
    /\ long_texts = {}
    /\ environ \in ApiKeys
    /\ session_state = << >> /\ page = << >>
    /\ IdleTk
    /\ text = << >> /\ max_chars = 0
    /\ sanitized = << >> /\ start = 0 /\ chunks = << >> /\ cuts = {}
    /\ IdleTranslate /\ IdleNet /\ IdleMain

UnchangedByPage ==
    UNCHANGED <<splitVars, transVars, temperature, genVars, args, data, chunked, in_fallback,
                ioVars, result, error, envVars, tkVars>>

\* streamlit_app.py lines 178-203: the form is submitted; the checks, the prompt,
\* the client and the post of the single prompt
WebGenerateSubmit ==
    /\ pc = "script_idle"
    /\ Len(requests) < MaxRuns
    /\ \E form_values \in WebForms :
        LET built == _build_story_config(form_values)
            key == _require_api_key
            client == GeminiClient(key.value)
        IN  IF strip(form_values.description) = << >>
            THEN /\ page' = <<StError("Please describe the story idea.", NoError)>>
                 /\ UNCHANGED <<pc, cfg, requests>>
            ELSE IF ~built.ok
            THEN /\ page' = <<StError("", built.exc)>>
                 /\ UNCHANGED <<pc, cfg, requests>>
            ELSE IF ~key.ok
            THEN /\ page' = <<StError("", key.exc)>>
                 /\ cfg' = built.value
                 /\ UNCHANGED <<pc, requests>>
            ELSE IF ~client.ok
            THEN /\ page' = <<StError("Failed to generate story:", client.exc)>>
                 /\ cfg' = built.value
                 /\ UNCHANGED <<pc, requests>>
            ELSE /\ page' = << >>
                 /\ cfg' = built.value
                 /\ requests' = Append(requests,
                                       Payload(build_prompt(built.value), GenerateTemperature))
                 /\ pc' = "generate_story_await"
    /\ UNCHANGED <<responses, session_state>>
    /\ UnchangedByPage

\* streamlit_app.py lines 203-215: the endpoint answers the generation
WebGenerateResponse ==
    /\ pc = "generate_story_await"
    /\ \E r \in ShellResponses :
        /\ responses' = Append(responses, r)
        /\ LET story == _call_gemini(r)
           IN  IF ~story.ok
               THEN /\ page' = <<StError("Failed to generate story:", story.exc)>>
                    /\ session_state' = session_state
               ELSE /\ page' = <<Element("success", "Story ready!", << >>, NoError),
                                  Element("text_area", "Generated story", story.value, NoError),
                                  Element("download_button", "Download story", story.value,
                                          NoError)>>
                    /\ session_state' = story.value
    /\ pc' = "script_idle"
    /\ UNCHANGED <<cfg, requests>>
    /\ UnchangedByPage

\* streamlit_app.py lines 220-243: 'Translate story' is clicked
WebTranslateClick ==
    /\ pc = "script_idle"
    /\ Len(requests) < MaxRuns
    /\ \E source_text \in WebSources \cup {_get_latest_story} :
       \E language \in Languages :
        LET key == _require_api_key
            client == GeminiClient(key.value)
            built == build_translation_prompt(source_text, language, Nothing, Nothing)
        IN  IF strip(source_text) = << >>
            THEN /\ page' = <<StError("Provide a story to translate.", NoError)>>
                 /\ UNCHANGED <<pc, requests>>
            ELSE IF ~key.ok
            THEN /\ page' = <<StError("", key.exc)>>
                 /\ UNCHANGED <<pc, requests>>
            ELSE IF ~client.ok
            THEN /\ page' = <<StError("Failed to translate story:", client.exc)>>
                 /\ UNCHANGED <<pc, requests>>
            ELSE IF ~built.ok
            THEN /\ page' = <<StError("Failed to translate story:", built.exc)>>
                 /\ UNCHANGED <<pc, requests>>
            ELSE /\ page' = << >>
                 /\ requests' = Append(requests, Payload(built.value, TranslateTemperature))
                 /\ pc' = "translate_text_await"
    /\ UNCHANGED <<cfg, responses, session_state>>
    /\ UnchangedByPage

\* streamlit_app.py lines 239-254: the endpoint answers the translation
WebTranslateResponse ==
    /\ pc = "translate_text_await"
    /\ \E r \in ShellResponses :
        /\ responses' = Append(responses, r)
        /\ LET translation == _call_gemini(r)
           IN  page' = IF ~translation.ok
                       THEN <<StError("Failed to translate story:", translation.exc)>>
                       ELSE <<Element("success", "Translation ready in",
                                      <<requests[Len(requests)].prompt.target_language>>,
                                      NoError),
                              Element("text_area", "Translated story", translation.value,
                                      NoError),
                              Element("download_button", "Download translation",
                                      translation.value, NoError)>>
    /\ pc' = "script_idle"
    /\ UNCHANGED <<cfg, requests, session_state>>
    /\ UnchangedByPage

NextWeb ==
    WebGenerateSubmit \/ WebGenerateResponse \/ WebTranslateClick \/ WebTranslateResponse

SpecWeb == InitWeb /\ [][NextWeb]_vars

(***************************************************************************)
(* The three presentation shells together: a session is one of a command   *)
(* line run, a desktop window and a web page.                              *)
(***************************************************************************)
InitShells == InitMain \/ InitDesktop \/ InitWeb

NextShells == Next \/ NextDesktop \/ NextWeb

SpecShells == InitShells /\ [][NextShells]_vars

(***************************************************************************)
(* Claims about a generation run of the command line, checked under Spec.  *)
(***************************************************************************)
\* the interactive prompts wrote their questions to this stream: only then does
\* a stream hold nine writes or more (standard error has them on a terminal,
\* standard output otherwise)
QuestionsOn(stream) == Len(stream) >= 9

\* the stream without the writes of the interactive prompts that begin it
Besides(stream, written) ==
    IF SubSeq(stream, 1, Len(written)) = written
    THEN SubSeq(stream, Len(written) + 1, Len(stream))
    ELSE stream

\* what main has printed on standard output besides the questions and the notices
\* of the interactive prompts
Printed ==
    IF QuestionsOn(stdout) THEN Besides(stdout, Transcript(data, {"input", "print"}))
    ELSE IF QuestionsOn(stderr) THEN Besides(stdout, Transcript(data, {"print"}))
    ELSE stdout

\* what main has printed on standard error besides the questions
Reported ==
    IF QuestionsOn(stderr) THEN Besides(stderr, Transcript(data, {"input"})) ELSE stderr

\* a generation run that has posted at least one request
Generating == args.translate_file = None /\ requests # << >>

\* the run's first request is a chapter prompt: it took the chaptered path
StartedChaptered == requests[1].prompt.kind = "chapter"

\* the number of requests posted before the chapter calls (the single shot, if any)
Offset == IF StartedChaptered THEN 0 ELSE 1

Failed(k) == ~_call_gemini(responses[k]).ok

ErrorOf(k) == _call_gemini(responses[k]).exc

\* the trimmed results of the chapter calls 1..m
ChapterTexts(m) == [j \in 1..m |-> strip(responses[Offset + j].text)]

\* C1: with --chapter-mode auto the run takes the chaptered path exactly when
\* word_length >= 1400 or chapters >= 4; 'chunked' always takes it and 'single'
\* never does (1400/1 and 100/4 are chaptered, 900/3 is single-shot).
C1_ModeSelection ==
    /\ should_chunk_story([word_length |-> 1400, chapters |-> 1])
    /\ should_chunk_story([word_length |-> 100, chapters |-> 4])
    /\ ~should_chunk_story([word_length |-> 900, chapters |-> 3])
    /\ Generating =>
        /\ requests[1].prompt.kind \in {"chapter", "single"}
        /\ chunked = StartedChaptered
        /\ args.chapter_mode = "auto" =>
              (StartedChaptered <=> (cfg.word_length >= 1400 \/ cfg.chapters >= 4))
        /\ args.chapter_mode = "chunked" => StartedChaptered
        /\ args.chapter_mode = "single" => ~StartedChaptered

\* C1 witness: an auto run with 1400 words and one chapter went chaptered.
C1_Witness ==
    /\ Generating
    /\ args.chapter_mode = "auto"
    /\ cfg.word_length = 1400 /\ cfg.chapters = 1
    /\ StartedChaptered

\* C2: a chaptered generation of N chapters posts the chapter calls 1, 2, ... in
\* order, the prompt of call i built from the blank-line join of the trimmed
\* results of calls 1..i-1 (the placeholder when that is empty); the accumulation
\* holds one element per successful call, and when all N succeed exactly N calls
\* were made and the story is the trimmed results joined with a blank line.
C2_ChaptersInOrder ==
    Generating =>
        LET n == Len(requests) - Offset
            answered == Len(responses) - Offset
        IN  /\ n <= cfg.chapters
            /\ \A i \in 1..n :
                  LET prior == join(BlankLine, ChapterTexts(i - 1))
                      sent == requests[Offset + i].prompt
                  IN  /\ sent.kind = "chapter"
                      /\ sent.chapter_number = i
                      /\ sent.chapters = cfg.chapters
                      /\ sent = build_chapter_prompt(cfg, i, prior, TargetWords(cfg))
                      /\ (sent.prior_context = Placeholder) <=> (i = 1)
            /\ pc \in {"chapter_loop", "chapter_await"} =>
                  /\ \A j \in 1..answered : ~Failed(Offset + j)
                  /\ chapters = ChapterTexts(answered)
                  /\ cumulative_text = join(BlankLine, chapters)
                  /\ chapter_number = answered + 1
                  /\ n = answered + (IF pc = "chapter_await" THEN 1 ELSE 0)
            /\ (n >= 1 /\ (pc = "main_output" \/ exit_code = "0")) =>
                  /\ n = cfg.chapters
                  /\ answered = n
                  /\ result = join(BlankLine, ChapterTexts(n))

\* C2 witness: three chapters A, B, A were generated for 900 words and returned
\* as A, blank line, B, blank line, A.
C2_Witness ==
    /\ Generating
    /\ StartedChaptered
    /\ pc = "exited"
    /\ cfg.chapters = 3 /\ cfg.word_length = 900
    /\ Len(requests) = 3
    /\ responses[2].text = <<" ", "B", "\n">>
    /\ result = <<"A", "\n", "\n", "B", "\n", "\n", "A">>
    /\ stdout = <<result>>

\* C3: when the call for chapter k fails, no later call is posted and the failed
\* call is not posted again, the error printed is the error of chapter k, and the
\* run exits with status 1 having printed no story and written no file.
C3_ChapterFailureAborts ==
    Generating =>
        \A k \in 1..Len(responses) :
            (requests[k].prompt.kind = "chapter" /\ Failed(k)) =>
                /\ Len(requests) = k
                /\ Len(responses) = k
                /\ pc \in {"generate_raised", "exited"}
                /\ error = ErrorOf(k)
                /\ pc = "exited" =>
                      /\ exit_code = "1"
                      /\ Printed = << >>
                      /\ output_file = << >>
                      /\ Len(Reported) = 1
                      /\ Reported[1].exc = ErrorOf(k)

\* C3 witness: a run that began in chapters failed at chapter 2 of at least 4
\* with a MAX_TOKENS error and exited with status 1, an output file being asked.
C3_Witness ==
    /\ Generating
    /\ StartedChaptered
    /\ pc = "exited"
    /\ cfg.chapters >= 4
    /\ Len(requests) = 2
    /\ Failed(2)
    /\ Contains(ErrorOf(2), "MAX_TOKENS")
    /\ args.output # None
    /\ exit_code = "1"

\* C4: a single-shot call that failed with MAX_TOKENS in its error text is
\* followed by one chaptered run with the same configuration, whose failure ends
\* the run with that error printed; after any other failure nothing more is
\* posted; a run posts at most 1 + chapters requests.
C4_FallbackOnce ==
    Generating =>
        /\ Len(requests) <= 1 + cfg.chapters
        /\ cfg = load_config(args.config, data).value
        /\ in_fallback =>
              /\ ~StartedChaptered
              /\ Failed(1)
              /\ Contains(ErrorOf(1), "MAX_TOKENS")
        /\ (~StartedChaptered /\ responses # << >>) =>
              /\ (Failed(1) /\ Contains(ErrorOf(1), "MAX_TOKENS")) =>
                    /\ pc = "main_output" => in_fallback
                    /\ pc \in {"generate_raised", "exited"} => (in_fallback \/ Len(requests) = 1)
                    /\ pc = "exited" => Len(requests) >= 2
                    /\ \A i \in 2..Len(requests) :
                          /\ requests[i].prompt.kind = "chapter"
                          /\ requests[i].prompt.chapter_number = i - 1
                          /\ requests[i].prompt =
                                build_chapter_prompt(cfg, i - 1,
                                                     requests[i].prompt.prior_context,
                                                     TargetWords(cfg))
                    /\ \A k \in 2..Len(responses) :
                          Failed(k) =>
                              /\ Len(requests) = k
                              /\ pc = "exited" =>
                                    /\ exit_code = "1"
                                    /\ Reported = <<Message("Failed to generate story even after chunking:",
                                                          ErrorOf(k))>>
              /\ ~(Failed(1) /\ Contains(ErrorOf(1), "MAX_TOKENS")) =>
                    /\ Len(requests) = 1
                    /\ ~in_fallback
                    /\ (Failed(1) /\ pc = "exited") =>
                          /\ exit_code = "1"
                          /\ Reported = <<Message("Failed to generate story:", ErrorOf(1))>>
        /\ StartedChaptered =>
              /\ ~in_fallback
              /\ \A k \in 1..Len(responses) : Failed(k) => Len(requests) = k

\* C4 witness: the single shot failed with MAX_TOKENS, the chaptered second
\* attempt failed at its chapter 2, and the run ended with that error.
C4_Witness ==
    /\ Generating
    /\ ~StartedChaptered
    /\ pc = "exited"
    /\ in_fallback
    /\ Len(requests) = 3
    /\ Failed(3)
    /\ ErrorOf(3) # ErrorOf(1)
    /\ exit_code = "1"

\* a 2xx response without the text at the expected path
ShapeError(k) == responses[k].status = "ok" /\ ~responses[k].has_text

\* C5 as stated: a response-shape error of the single call of a single-shot run
\* always leads to the chaptered second attempt.
C5_ShapeErrorAlwaysFallsBack ==
    (Generating /\ ~StartedChaptered /\ responses # << >> /\ pc = "exited") =>
        (ShapeError(1) => Len(requests) >= 2)

\* C5 amended: a response-shape error of the single call leads to the chaptered
\* second attempt exactly when its message, which embeds the payload, contains
\* MAX_TOKENS; a response-shape error of a chapter call is printed as it is and
\* nothing more is posted.
C5_ShapeErrorFallsBackOnMarker ==
    Generating =>
        /\ (~StartedChaptered /\ responses # << >> /\ ShapeError(1)) =>
              /\ ErrorOf(1).type = "RuntimeError"
              /\ pc = "exited" =>
                    (Len(requests) >= 2 <=> responses[1].detail = "MAX_TOKENS")
              /\ in_fallback => responses[1].detail = "MAX_TOKENS"
              /\ Len(requests) >= 2 => in_fallback
        /\ \A k \in 1..Len(responses) :
              (requests[k].prompt.kind = "chapter" /\ ShapeError(k)) =>
                  /\ Len(requests) = k
                  /\ pc = "exited" => (exit_code = "1" /\ Reported[1].exc = ErrorOf(k))

\* C5 witness: the single call got a response without text that says
\* MAX_TOKENS, and the chaptered second attempt produced the story.
C5_Witness ==
    /\ Generating
    /\ ~StartedChaptered
    /\ responses # << >>
    /\ ShapeError(1)
    /\ responses[1].detail = "MAX_TOKENS"
    /\ pc = "exited"
    /\ exit_code = "0"
    /\ Len(requests) = 1 + cfg.chapters
    /\ stdout = <<result>>

(***************************************************************************)
(* Claims about the chunked translation, checked under SpecTranslate.      *)
(***************************************************************************)
\* the translations received so far, as _call_gemini returns them
Translations == [k \in 1..Len(responses) |-> strip(responses[k].text)]

AllAnsweredOk == \A k \in 1..Len(responses) : _call_gemini(responses[k]).ok

\* C6: a text that splits into n >= 1 chunks is translated by calls 1..n in
\* order, call k carrying chunk k tagged k of n in its prompt, call k + 1 posted
\* only after call k was answered; when all n succeed the result is the n
\* translations joined with a blank line in chunk order.
C6_ChunksTranslatedInOrder ==
    (pc \in {"translate_loop", "translate_await", "translate_done", "translate_raised"}
     /\ strip(text) # << >>) =>
        LET n == Len(_split_story_into_chunks(text, max_chars))
        IN  /\ n >= 1
            /\ Len(requests) <= n
            /\ \A k \in 1..Len(requests) :
                  /\ requests[k].prompt.kind = "translation"
                  /\ requests[k].prompt.chunk_note = <<k, n>>
                  /\ requests[k].prompt =
                        build_translation_prompt(_split_story_into_chunks(text, max_chars)[k],
                                                 target_language, Some(k), Some(n)).value
            /\ Len(requests) = Len(responses) + (IF pc = "translate_await" THEN 1 ELSE 0)
            /\ \A k \in 1..(Len(responses) - 1) : _call_gemini(responses[k]).ok
            /\ pc = "translate_done" =>
                  /\ Len(requests) = n
                  /\ AllAnsweredOk
                  /\ result = join(BlankLine, Translations)
            /\ (Len(responses) = n /\ AllAnsweredOk) => pc \in {"translate_loop", "translate_done"}

\* C6 witness: three chunks translated, the translations not all alike.
C6_Witness ==
    /\ pc = "translate_done"
    /\ Len(chunks) >= 3
    /\ Len(requests) = Len(chunks)
    /\ \E j, k \in 1..Len(responses) : responses[j].text # responses[k].text

\* C7: an empty or whitespace-only translation input is rejected locally, for
\* any max_chars: the split is empty, translate_story_in_chunks and
\* build_translation_prompt raise the input error, and nothing is posted.
C7_EmptyInputRejected ==
    (strip(text) = << >> /\ pc # "translate_entry") =>
        /\ _split_story_into_chunks(text, max_chars) = << >>
        /\ pc = "translate_raised"
        /\ error.type = "ValueError"
        /\ error = build_translation_prompt(text, "Marathi", Nothing, Nothing).exc
        /\ ~build_translation_prompt(text, "Marathi", Some(1), Some(1)).ok
        /\ requests = << >>
        /\ responses = << >>

\* C7 witness: a whitespace-only text was rejected with max_chars = 0.
C7_Witness ==
    /\ pc = "translate_raised"
    /\ text # << >>
    /\ strip(text) = << >>
    /\ max_chars = 0
    /\ requests = << >>

(***************************************************************************)
(* Claims about the chunker, checked under SpecSplit.                      *)
(***************************************************************************)
\* s with every whitespace character removed
NoSpace(s) == SelectSeq(s, LAMBDA c : ~isspace(c))

RECURSIVE NormalizeFrom(_, _)
NormalizeFrom(s, k) ==
    IF k > Len(s) THEN << >>
    ELSE IF isspace(s[k])
         THEN IF k > 1 /\ isspace(s[k - 1])
              THEN NormalizeFrom(s, k + 1)
              ELSE <<" ">> \o NormalizeFrom(s, k + 1)
         ELSE <<s[k]>> \o NormalizeFrom(s, k + 1)

\* s with every maximal run of whitespace replaced by one separator
Normalize(s) == NormalizeFrom(s, 1)

SplitDone == pc = "split_done" /\ max_chars >= 1

\* the scan made a hard cut: no newline in the window, the cut is at start + max_chars
HardCut == \E c \in cuts : c[2] = c[1] + max_chars /\ c[2] < Len(sanitized)

\* the scan cut between two non-whitespace characters (a hard cut inside a run)
CutInsideRun ==
    \E c \in cuts :
        /\ c[2] < Len(sanitized)
        /\ ~isspace(sanitized[c[2]])
        /\ ~isspace(sanitized[c[2] + 1])

\* C8: the pieces, concatenated in order with all whitespace removed, equal the
\* input with all whitespace removed, and no piece is empty or has leading or
\* trailing whitespace.
C8_ContentPreserved ==
    SplitDone =>
        /\ NoSpace(join(<< >>, result)) = NoSpace(text)
        /\ \A k \in 1..Len(result) :
              /\ result[k] # << >>
              /\ ~isspace(result[k][1])
              /\ ~isspace(result[k][Len(result[k])])

\* C8 witness: a split into three pieces, one of them ended by a hard cut inside
\* a run of text, with whitespace skipped between two others.
C8_Witness ==
    /\ SplitDone
    /\ Len(result) >= 3
    /\ CutInsideRun
    /\ Len(NoSpace(text)) < Len(strip(text))

\* C9 as stated: joining the pieces with a blank line reproduces the trimmed text
\* up to whitespace-run normalization, for every non-empty text.
C9_RoundTripAlways ==
    (SplitDone /\ text # << >>) =>
        Normalize(join(BlankLine, result)) = Normalize(strip(text))

\* C9 amended: the round trip holds whenever no cut fell between two
\* non-whitespace characters; in every case it holds after removing whitespace.
C9_RoundTripUnlessCutInsideRun ==
    (SplitDone /\ text # << >>) =>
        /\ ~CutInsideRun =>
              Normalize(join(BlankLine, result)) = Normalize(strip(text))
        /\ NoSpace(join(BlankLine, result)) = NoSpace(text)

\* C9 witness: several pieces, every cut at whitespace, and a hard cut among them.
C9_Witness ==
    /\ SplitDone
    /\ Len(result) >= 3
    /\ ~CutInsideRun
    /\ HardCut

\* C10 as stated: no piece exceeds max_chars unless a hard cut made it, and the
\* number of pieces is at least ceil(len(trimmed text) / max_chars).
C10_SizeAndCountByLength ==
    SplitDone =>
        /\ \A k \in 1..Len(result) : Len(result[k]) <= max_chars \/ HardCut
        /\ Len(result) * max_chars >= Len(strip(text))

\* C10 amended: no piece exceeds max_chars (hard cut or not), and the number of
\* pieces is at least ceil(non-whitespace characters of the text / max_chars).
C10_SizeAndCountByContent ==
    SplitDone =>
        /\ \A k \in 1..Len(result) : Len(result[k]) <= max_chars
        /\ Len(result) * max_chars >= Len(NoSpace(text))

\* C10 witness: a piece of exactly max_chars characters made by a hard cut, in a
\* split with fewer pieces than ceil(len(trimmed text) / max_chars).
C10_Witness ==
    /\ SplitDone
    /\ max_chars >= 2
    /\ \E k \in 1..Len(result) : Len(result[k]) = max_chars
    /\ HardCut
    /\ Len(result) * max_chars < Len(strip(text))

\* C11: with max_chars >= 1, in every iteration the cut is strictly after the
\* start, the next start is at or after the cut and after the whitespace that
\* follows it, so the start strictly increases; and the split terminates.
C11_Terminates ==
    /\ [][(pc = "split_loop" /\ max_chars >= 1 /\ start < Len(sanitized)) =>
              /\ SplitPoint(sanitized, start, max_chars) > start
              /\ start' >= SplitPoint(sanitized, start, max_chars)
              /\ start' > start
              /\ start' <= Len(sanitized)
              /\ \A i \in SplitPoint(sanitized, start, max_chars) + 1..start' :
                    isspace(sanitized[i])
              /\ start' < Len(sanitized) => ~isspace(sanitized[start' + 1])]_vars
    /\ (max_chars >= 1) => <>(pc = "split_done")

\* C11 witness: a finished split of three iterations or more in which whitespace
\* was skipped after a cut and a hard cut was made.
C11_Witness ==
    /\ SplitDone
    /\ Cardinality(cuts) >= 3
    /\ HardCut
    /\ \E c \in cuts : c[2] < Len(sanitized) /\ isspace(sanitized[c[2] + 1])

(***************************************************************************)
(* Claims about the Configuration of a command line run, checked under     *)
(* Spec.                                                                   *)
(***************************************************************************)
\* load_config raised the ValueError of validate and main ended the run
ConfigRejected ==
    /\ args.translate_file = None
    /\ pc = "exited"
    /\ Reported # << >>
    /\ Reported[1].text = "Error loading config:"
    /\ Reported[1].exc.type = "ValueError"

\* load_config returned a Configuration to main
ConfigLoaded ==
    /\ args.translate_file = None
    /\ pc \notin {"main_entry", "main_load_config"}
    /\ ~(Reported # << >> /\ Reported[1].text \in {"", "Error loading config:"})

\* the fields of the Configuration as the input gives them, before validation
ConfigAsRead ==
    IF args.config = None THEN TypedConfig(data) ELSE from_dict(data)

EmptyFields(c) == SelectSeq(StringFields, LAMBDA f : strip(c[f]) = << >>)

\* every request of a generation run was built from a validated Configuration: the
\* Configuration was loaded first, none of its five string fields is empty after
\* trimming, and the requests carry these fields
ValidatedBeforeRequests ==
    /\ requests # << >> /\ args.translate_file = None => ConfigLoaded
    /\ ConfigLoaded =>
          /\ cfg = ConfigAsRead
          /\ EmptyFields(cfg) = << >>
          /\ \A k \in 1..Len(requests) : \A f \in {StringFields[j] : j \in DOMAIN StringFields} :
                requests[k].prompt[f] = cfg[f]
    /\ (args.translate_file = None /\ pc = "exited" /\ exit_code = "0") => ConfigLoaded

\* a Configuration with an empty string field ends the run with a validation
\* failure that names the empty fields, and no request is posted for it
RejectedWithoutRequest ==
    ConfigRejected =>
        /\ EmptyFields(ConfigAsRead) # << >>
        /\ Reported[1].exc.message = <<"Missing required fields:">> \o EmptyFields(ConfigAsRead)
        /\ requests = << >> /\ Printed = << >> /\ output_file = << >>
        /\ exit_code = "1"

\* the value of a JSON document is numeric: a number, or a string that is the
\* text of an integer
Numeric(value) ==
    value.t = "int" \/ (value.t = "str" /\ ParseInt(strip(value.s)).ok)

\* the number that a numeric value of a JSON document stands for
NumberOf(value) ==
    IF value.t = "int" THEN value.n ELSE ParseInt(strip(value.s)).n

\* a Configuration loaded from a JSON document: no string field is defaulted (a
\* string is taken trimmed, another value as it prints), and word_length and
\* chapters are the number given, or 900 and 3 when it is absent, non-numeric or
\* not positive
JsonDefaults ==
    /\ \A f \in {StringFields[j] : j \in DOMAIN StringFields} :
          /\ data[f].t # "absent"
          /\ cfg[f] = _str(data[f])
          /\ data[f].t = "str" => cfg[f] = strip(data[f].s)
    /\ cfg.word_length =
          IF Numeric(data.word_length) /\ NumberOf(data.word_length) > 0
          THEN NumberOf(data.word_length) ELSE 900
    /\ cfg.chapters =
          IF Numeric(data.chapters) /\ NumberOf(data.chapters) > 0
          THEN NumberOf(data.chapters) ELSE 3

\* an answer to a number question that is a positive integer
PositiveNumber(answer) ==
    ParseInt(strip(answer)).ok /\ ParseInt(strip(answer)).n > 0

\* the number question was asked until an answer was blank or a positive integer:
\* the answers before the last are neither, and the last one is taken, 'default'
\* standing for a blank
AskedUntilAccepted(answers, number, default) ==
    /\ \A k \in 1..(Len(answers) - 1) :
          strip(answers[k]) # << >> /\ ~PositiveNumber(answers[k])
    /\ number = IF strip(answers[Len(answers)]) = << >> THEN default
                ELSE ParseInt(strip(answers[Len(answers)])).n
    /\ number > 0

\* C12 as stated, for every way a Configuration is loaded: validation precedes
\* every request, an empty string field is a validation failure without a
\* request, no string field is defaulted, and only word_length and chapters are
\* replaced by 900 and 3 when the value given (for the interactive prompts, the
\* first answer) is absent, non-numeric or not positive.
C12_ValidationPrecedesRequest ==
    /\ ValidatedBeforeRequests
    /\ RejectedWithoutRequest
    /\ ConfigLoaded =>
          IF args.config # None THEN JsonDefaults
          ELSE /\ \A f \in {StringFields[j] : j \in DOMAIN StringFields} :
                     cfg[f] = strip(data[f])
               /\ cfg.word_length = IF PositiveNumber(data.word_length[1])
                                    THEN ParseInt(strip(data.word_length[1])).n ELSE 900
               /\ cfg.chapters = IF PositiveNumber(data.chapters[1])
                                 THEN ParseInt(strip(data.chapters[1])).n ELSE 3

\* C12 amended: validation precedes every request and an empty string field is a
\* validation failure without a request, on both paths; what is defaulted depends
\* on the path. From a JSON document only word_length and chapters are defaulted
\* (900 and 3 when absent, non-numeric or not positive). At the interactive
\* prompts a blank genre, writing style, literary inspiration or ending type is
\* replaced by the default its question shows, the description has no default,
\* and word_length and chapters are 900 and 3 only for a blank answer: an answer
\* that is non-numeric or not positive is asked again.
C12_DefaultsByInputPath ==
    /\ ValidatedBeforeRequests
    /\ RejectedWithoutRequest
    /\ ConfigLoaded =>
          IF args.config # None THEN JsonDefaults
          ELSE /\ cfg.story_description = strip(data.story_description)
               /\ cfg.genre = IF strip(data.genre) = << >> THEN GenreDefault
                              ELSE strip(data.genre)
               /\ cfg.writing_style = IF strip(data.writing_style) = << >> THEN StyleDefault
                                      ELSE strip(data.writing_style)
               /\ cfg.literature_inspiration =
                     IF strip(data.literature_inspiration) = << >> THEN InspirationDefault
                     ELSE strip(data.literature_inspiration)
               /\ cfg.ending_type = IF strip(data.ending_type) = << >> THEN EndingDefault
                                    ELSE strip(data.ending_type)
               /\ AskedUntilAccepted(data.word_length, cfg.word_length, 900)
               /\ AskedUntilAccepted(data.chapters, cfg.chapters, 3)

\* C12 witness: a request was posted for a Configuration typed at the interactive
\* prompts: the blank genre became the default of its question, the word length
\* was asked again after a non-numeric answer and after 0 and the third answer
\* taken, and the chapter count was asked again after -1 and after a non-numeric
\* answer and the blank third answer became 3.
C12_Witness ==
    /\ requests # << >> /\ args.translate_file = None
    /\ args.config = None
    /\ data.genre = << >> /\ cfg.genre = GenreDefault
    /\ requests[1].prompt.genre = GenreDefault
    /\ data.word_length = <<X, <<"0">>, Decimal(ChunkWords)>> /\ cfg.word_length = ChunkWords
    /\ data.chapters = <<<<"-", "1">>, X, << >>>> /\ cfg.chapters = 3

\* C13: a Configuration without characters is a validation failure reported
\* before any request: no request is built from an empty character list, no
\* prompt carries the fallback line in its place, and a run whose input has no
\* characters ends with the validation failure.
C13_CharactersRequired ==
    /\ (args.translate_file = None /\ requests # << >>) =>
          /\ cfg.characters # << >>
          /\ \A k \in 1..Len(requests) :
                requests[k].prompt.character_lines # CharacterFallback
    /\ (ConfigLoaded \/ ConfigRejected) =>
          (ConfigAsRead.characters = << >> => ConfigRejected)

(***************************************************************************)
(* Claims about the three shells, checked under SpecShells.                *)
(***************************************************************************)
InDesktop == pc = "mainloop"
InWeb == pc \in {"script_idle", "generate_story_await", "translate_text_await"}
InCli == ~InDesktop /\ ~InWeb

NoCredential == environ = None \/ environ = ""

CredentialError == Raise("ValueError", <<"Set GEMINI_API_KEY in your environment.">>).exc

\* C14: no request is posted without a non-empty credential. Without one the
\* construction of the client fails with the configuration error and the shell
\* shows it before any network attempt: the command line exits with status 1
\* before it reads anything, every desktop run ends in the error handler with
\* that error, the web page stops with its error; with a credential the check is
\* never made again, however many calls follow.
C14_CredentialRequired ==
    /\ requests # << >> => ~NoCredential
    /\ NoCredential =>
          /\ requests = << >> /\ responses = << >>
          /\ (InCli /\ pc # "main_entry") =>
                /\ pc = "exited" /\ exit_code = "1"
                /\ Reported = <<Message("", CredentialError)>>
                /\ stdout = << >> /\ output_file = << >>
                /\ data = None /\ text = << >>
          /\ InDesktop =>
                /\ output_text = << >>
                /\ \A i \in DOMAIN threads : threads[i].pc # "awaiting"
                /\ \A k \in DOMAIN after_queue :
                      /\ after_queue[k].handler = "_handle_error"
                      /\ after_queue[k].exc = CredentialError
                /\ \A k \in DOMAIN messagebox :
                      messagebox[k].title = "Gemini error" => messagebox[k].exc = CredentialError
                /\ Cardinality({i \in DOMAIN threads : threads[i].pc = "finished"})
                      = Len(after_queue)
                        + Cardinality({k \in DOMAIN messagebox :
                                          messagebox[k].title = "Gemini error"})
          /\ InWeb =>
                /\ pc = "script_idle"
                /\ session_state = << >>
                /\ \A k \in DOMAIN page : page[k].kind = "error"
    /\ ~NoCredential =>
          /\ \A k \in DOMAIN Reported : Reported[k].exc # CredentialError
          /\ \A k \in DOMAIN messagebox : messagebox[k].exc # CredentialError
          /\ \A k \in DOMAIN after_queue : after_queue[k].exc # CredentialError
          /\ \A k \in DOMAIN page : page[k].exc.type # "StopException"

\* C14 witness: a desktop session with an empty credential in which two runs were
\* started and both ended in the error dialog, no request posted.
C14_Witness ==
    /\ InDesktop
    /\ environ = ""
    /\ Len(threads) >= 2
    /\ Cardinality({k \in DOMAIN messagebox : messagebox[k].title = "Gemini error"}) = 2
    /\ requests = << >>

(***************************************************************************)
(* Claims about the chapter prompts of a command line run, checked under   *)
(* Spec.                                                                   *)
(***************************************************************************)
\* the closing instructions the prompt builder is to choose between
ResolutionInstruction == "Resolve all arcs with the ending mood."
ContinuationInstruction == "End on a forward-leaning beat without a cliffhanger."

Instructs(prompt, instruction) ==
    \E k \in DOMAIN prompt.requirements : prompt.requirements[k] = instruction

\* C15: the prompt of the final chapter (i = N) carries the resolution
\* instruction and not the continuation instruction, the prompt of every
\* earlier chapter (i < N) the continuation instruction and not the resolution
\* instruction.
C15_ClosingInstruction ==
    \A k \in DOMAIN requests :
        LET prompt == requests[k].prompt
        IN  prompt.kind = "chapter" =>
              /\ Instructs(prompt, ResolutionInstruction)
                    <=> (prompt.chapter_number = prompt.chapters)
              /\ Instructs(prompt, ContinuationInstruction)
                    <=> (prompt.chapter_number < prompt.chapters)

(***************************************************************************)
(* Claims about generate_story_in_chapters called by itself, the endpoint  *)
(* writing chapters of full length, checked under SpecChapters.            *)
(***************************************************************************)
\* the accumulated text when request k was built: the trimmed results of the
\* calls before it, joined by a blank line
AccumulatedAt(k) == join(BlankLine, [j \in 1..(k - 1) |-> strip(responses[j].text)])

\* C16: the prior context of every chapter prompt is the trimmed accumulated
\* text when that has at most 2000 characters and its last 2000 characters
\* otherwise, never more; it is the placeholder exactly when the accumulated
\* text is empty after trimming, so the prompt of chapter 2 carries (the end of)
\* chapter 1 and not the placeholder.
C16_TrailingWindow ==
    \A k \in DOMAIN requests :
        LET context == requests[k].prompt.prior_context
            trimmed == strip(AccumulatedAt(k))
            n == Len(trimmed)
        IN  /\ requests[k].prompt.kind = "chapter"
            /\ requests[k].prompt.chapter_number = k
            /\ Len(context) <= 2000
            /\ (context = Placeholder) <=> (trimmed = << >>)
            /\ trimmed = << >> <=> k = 1
            /\ trimmed # << >> =>
                  /\ Len(context) = IF n <= 2000 THEN n ELSE 2000
                  /\ context = SubSeq(trimmed, n - Len(context) + 1, n)
            /\ (k = Len(requests) /\ pc = "chapter_await") => cumulative_text = AccumulatedAt(k)

(***************************************************************************)
(* Claims about a failed chaptered generation, checked under Spec.         *)
(***************************************************************************)
\* C17: when the chapter call k > 1 of a chaptered generation fails, the texts of
\* the chapters 1..k-1 are still held for the caller, at the moment the failure
\* reaches main and after main has reported it.
C17_PartialChaptersKept ==
    (/\ Generating
     /\ pc \in {"generate_raised", "exited"}
     /\ Len(responses) = Len(requests)
     /\ Failed(Len(responses))
     /\ Len(responses) - Offset > 1)
    => chapters = ChapterTexts(Len(responses) - Offset - 1)

(***************************************************************************)
(* Claims about what a failed run leaves on screen, checked under          *)
(* SpecShells.                                                             *)
(***************************************************************************)
\* the main loop runs the oldest callback and it is the error handler
ErrorHandlerStep ==
    /\ InDesktop
    /\ after_queue # << >>
    /\ Head(after_queue).handler = "_handle_error"
    /\ after_queue' = Tail(after_queue)

\* the web script receives the answer to its request and the answer is a failure
WebFailureStep ==
    /\ pc \in {"generate_story_await", "translate_text_await"}
    /\ Len(responses') = Len(responses) + 1
    /\ ~_call_gemini(responses'[Len(responses')]).ok

\* C18: in the desktop shell the error handler changes the two buttons, the
\* status text and the dialogs only, never the output area, and the output area
\* changes only when a success handler writes its story (or the user empties
\* it), so no step of a failing run touches a story on display; in the web shell
\* a failed run, and any translation, leaves the stored latest story unchanged.
C18_FailureKeepsOutput ==
    [][/\ ErrorHandlerStep =>
             /\ output_text' = output_text
             /\ status_var' = Head(after_queue).status_message
             /\ generate_btn' = "normal"
             /\ translate_btn' = (IF strip(output_text) # << >> THEN "normal" ELSE "disabled")
             /\ threads' = threads /\ requests' = requests /\ responses' = responses
       /\ (InDesktop /\ output_text' # output_text) =>
             \/ /\ after_queue # << >>
                /\ Head(after_queue).handler \in {"_handle_success", "_handle_translation_success"}
                /\ after_queue' = Tail(after_queue)
                /\ output_text' = Head(after_queue).story
             \/ /\ output_text' = << >>
                /\ after_queue' = after_queue
       /\ WebFailureStep => session_state' = session_state
       /\ (InWeb /\ pc = "translate_text_await") => session_state' = session_state
       /\ (InWeb /\ pc = "script_idle") => session_state' = session_state
      ]_vars

\* C18 witness: the desktop shows a story, a translation of it has failed and the
\* error handler has run: the story is still there and can be translated again.
C18_Witness ==
    /\ InDesktop
    /\ status_var = "Translation failed."
    /\ output_text # << >>
    /\ translate_btn = "normal"
    /\ after_queue = << >>
    /\ \A i \in DOMAIN threads : threads[i].pc = "finished"

(***************************************************************************)
(* Claims about the path a shell takes to its story, checked under         *)
(* SpecShells.                                                             *)
(***************************************************************************)
\* C19: in every shell the story comes from the orchestration: a Configuration
\* with word_length >= 1400 or chapters >= 4 is never sent as one single-shot
\* prompt (unless the command line forces --chapter-mode single), a single-shot
\* prompt cut short by MAX_TOKENS is followed by the chaptered attempt before
\* the run is over, and every translation prompt is a chunk tagged with its
\* index and the chunk count.
C19_ShellsUseOrchestrator ==
    \A k \in DOMAIN requests :
        LET prompt == requests[k].prompt
        IN  /\ prompt.kind = "single" =>
                  \/ prompt.word_length < 1400 /\ prompt.chapters < 4
                  \/ InCli /\ args.chapter_mode = "single"
            /\ (/\ prompt.kind = "single"
                /\ (InWeb /\ pc = "script_idle") \/ (InCli /\ pc = "exited")
                /\ Len(responses) >= k
                /\ ~_call_gemini(responses[k]).ok
                /\ Contains(_call_gemini(responses[k]).exc, "MAX_TOKENS"))
               => /\ Len(requests) > k
                  /\ requests[k + 1].prompt.kind = "chapter"
            /\ prompt.kind = "translation" => Len(prompt.chunk_note) = 2

(***************************************************************************)
(* Claims about where the chunker cuts, checked under SpecSplitLines.      *)
(***************************************************************************)
\* the positions p (0-based) of the window sanitized[st:end] after st at which a
\* blank line begins (two consecutive newlines inside the window)
BlankLinesIn(st, end) ==
    {p \in (st + 1)..(end - 2) : sanitized[p + 1] = "\n" /\ sanitized[p + 2] = "\n"}

\* the positions of the window after st that hold a newline
NewlinesIn(st, end) == {p \in (st + 1)..(end - 1) : sanitized[p + 1] = "\n"}

\* C20: in every iteration with more than max_chars characters left the cut is
\* at the last blank line of the window start..start + max_chars if it holds
\* one after the start (even when a single newline comes later in the window),
\* else at the last newline of the window, and only without any newline after
\* the start a hard cut at start + max_chars; with at most max_chars characters
\* left the cut is the end of the text and the rest is one piece.
C20_BoundaryPreference ==
    \A c \in cuts :
        LET st == c[1]
            split == c[2]
            end == st + max_chars
        IN  IF end < Len(sanitized)
            THEN split = IF BlankLinesIn(st, end) # {} THEN SetMax(BlankLinesIn(st, end))
                         ELSE IF NewlinesIn(st, end) # {} THEN SetMax(NewlinesIn(st, end))
                         ELSE end
            ELSE /\ split = Len(sanitized)
                 /\ pc = "split_done" =>
                       result[Len(result)] = strip(SubSeq(sanitized, st + 1, Len(sanitized)))

\* C20 witness: a finished split with a cut at a blank line although a single
\* newline, not part of that blank line, came later in the same window.
C20_Witness ==
    /\ pc = "split_done"
    /\ \E c \in cuts :
          /\ c[1] + max_chars < Len(sanitized)
          /\ BlankLinesIn(c[1], c[1] + max_chars) # {}
          /\ c[2] = SetMax(BlankLinesIn(c[1], c[1] + max_chars))
          /\ \E p \in NewlinesIn(c[1], c[1] + max_chars) : p > c[2] + 1

\* the background runs in flight: the threads started by a click that have not
\* yet handed their result or their exception to the main loop
InFlight == {i \in DOMAIN threads : threads[i].pc # "finished"}

\* C21: in the desktop shell at most one background run (generation or
\* translation) is in flight at any time, and while one is in flight neither
\* the Generate nor the Translate button can start another.
C21_SingleRunInFlight ==
    InDesktop =>
        /\ Cardinality(InFlight) <= 1
        /\ InFlight # {} => generate_btn = "disabled" /\ translate_btn = "disabled"

====
